---- MODULE Spec2Model ----
(***************************************************************************)
(* Model of the notebooks of advanced-rag-examples.                        *)
(*                                                                         *)
(* The indexing cell of baseline-rag.ipynb builds a SentenceSplitter,      *)
(* splits every loaded document into chunks, embeds every chunk and        *)
(* appends one record per chunk to document_data.  The chunker the cell    *)
(* calls is llama-index's SentenceSplitter (pinned to 0.10.33 by the       *)
(* chunk-optimization notebook); split_text below follows its _split /     *)
(* _merge / _postprocess_chunks.                                           *)
(*                                                                         *)
(* A text is a sequence of one-character strings.  Splits and chunks are   *)
(* carried as index ranges of the document text, so that the offset of     *)
(* every chunk is known.                                                   *)
(***************************************************************************)
EXTENDS Integers, Sequences, FiniteSets, TLC

\* ------------------------------------------------------------------ bounds
\* longest document text, in characters
MaxLen == 5
\* largest chunk_size and chunk_overlap handed to SentenceSplitter
MaxSize == 4
MaxOverlap == 4
\* number of distinct vectors the embedding service may return
NumVectors == 2
\* largest number of chunks in the collection when a question is asked
MaxStored == 6
\* largest number of nodes in the index of the post-retrieval notebook
MaxNodes == 11
\* largest number of passage numbers in the reply of the ranking model
MaxReply == 2
\* largest number of questions in the test set
MaxQuestions == 4
\* largest number of events in a completion stream
MaxEvents == 3

\* ------------------------------------------------------------- characters
Alphabet == {"a", " ", ".", "\n"}

\* characters removed by str.strip()
Whitespace == {" ", "\n", "\t", "\r"}

\* characters after which the sentence tokenizer may end a sentence
SentenceEnd == {".", "?", "!"}

\* the punctuation of secondary_chunking_regex "[^,.;]+[,.;]?"
RegexPunct == {",", ".", ";"}

separator == <<" ">>

paragraph_separator == <<"\n", "\n", "\n">>

IsLetter(c) == c \notin Whitespace /\ c \notin SentenceEnd /\ c \notin RegexPunct

Texts == UNION {[1..n -> Alphabet] : n \in 0..MaxLen}

Sub(text, lo, hi) == SubSeq(text, lo, hi)

\* The tokenizer: every character opens a token, except a letter that
\* directly follows a space, which belongs to the token the space opened
\* (" B" is one token, as in byte-pair encodings of English text).
TokenStarts(text) ==
    {i \in 1..Len(text) : ~(i > 1 /\ text[i-1] = " " /\ IsLetter(text[i]))}

token_size(text) == Cardinality(TokenStarts(text))

\* str.strip(): the range of text[lo..hi] left after removing leading and
\* trailing whitespace (lo > hi when nothing is left).
RECURSIVE LStrip(_, _, _)
LStrip(text, lo, hi) ==
    IF lo <= hi /\ text[lo] \in Whitespace THEN LStrip(text, lo + 1, hi) ELSE lo

RECURSIVE RStrip(_, _, _)
RStrip(text, lo, hi) ==
    IF lo <= hi /\ text[hi] \in Whitespace THEN RStrip(text, lo, hi - 1) ELSE hi

strip(text) ==
    LET lo == LStrip(text, 1, Len(text))
        hi == RStrip(text, lo, Len(text))
    IN  Sub(text, lo, hi)

\* ------------------------------------------------------- split functions
\* Each split function returns the pieces of text[lo..hi] as a sequence of
\* ranges <<first, last>> of the document text, in left-to-right order.

\* str.split(sep): the start positions of the occurrences of sep, found
\* left to right without overlap.
RECURSIVE SepStarts(_, _, _, _)
SepStarts(text, i, hi, sep) ==
    IF i + Len(sep) - 1 > hi THEN <<>>
    ELSE IF Sub(text, i, i + Len(sep) - 1) = sep
         THEN <<i>> \o SepStarts(text, i + Len(sep), hi, sep)
         ELSE SepStarts(text, i + 1, hi, sep)

\* The ranges that start at the positions of starts (a set that holds lo)
\* and end right before the next start, the last one at hi.
RECURSIVE TileFrom(_, _, _)
TileFrom(starts, s, hi) ==
    LET later == {x \in starts : x > s}
        next == IF later = {} THEN hi + 1
                ELSE CHOOSE x \in later : \A y \in later : x <= y
    IN  IF later = {} THEN << <<s, hi>> >>
        ELSE << <<s, next - 1>> >> \o TileFrom(starts, next, hi)

\* split_text_keep_separator: split on sep, the separator kept at the start
\* of every piece but the first; empty pieces are dropped.
split_by_sep(text, lo, hi, sep) ==
    LET occ == SepStarts(text, lo, hi, sep)
        starts == {occ[k] : k \in 1..Len(occ)} \cup {lo}
    IN  IF lo > hi THEN <<>> ELSE TileFrom(starts, lo, hi)

\* split_by_sentence_tokenizer: a sentence runs from its first character to
\* the first character of the next sentence (the whitespace between two
\* sentences stays with the first); the last one runs to the end of the
\* text.  A sentence starts at a non-whitespace character that follows a
\* sentence-ending character and at least one whitespace character.
SentenceStart(text, lo, j) ==
    /\ text[j] \notin Whitespace
    /\ \E k \in lo..(j - 2) :
         /\ text[k] \in SentenceEnd
         /\ \A w \in (k + 1)..(j - 1) : text[w] \in Whitespace

split_by_sentence_tokenizer(text, lo, hi) ==
    LET starts == {lo} \cup {j \in (lo + 1)..hi : SentenceStart(text, lo, j)}
    IN  IF lo > hi THEN <<>> ELSE TileFrom(starts, lo, hi)

\* split_by_regex: re.findall of "[^,.;]+[,.;]?": a run of non-punctuation
\* characters and at most one punctuation character after it.  A
\* punctuation character that follows another one starts no match and is
\* part of no piece.
RECURSIVE RunEnd(_, _, _)
RunEnd(text, i, hi) ==
    IF i < hi /\ text[i + 1] \notin RegexPunct THEN RunEnd(text, i + 1, hi) ELSE i

RECURSIVE split_by_regex(_, _, _)
split_by_regex(text, lo, hi) ==
    IF lo > hi THEN <<>>
    ELSE IF text[lo] \in RegexPunct THEN split_by_regex(text, lo + 1, hi)
    ELSE LET e == RunEnd(text, lo, hi)
             last == IF e < hi /\ text[e + 1] \in RegexPunct THEN e + 1 ELSE e
         IN  << <<lo, last>> >> \o split_by_regex(text, last + 1, hi)

\* split_by_char: list(text)
split_by_char(text, lo, hi) == [k \in 1..(hi - lo + 1) |-> <<lo + k - 1, lo + k - 1>>]

\* _get_splits_by_fns: the first of paragraph separator and sentence
\* tokenizer that yields more than one piece gives sentence splits;
\* otherwise the first of regex, word separator and characters that yields
\* more than one piece (or the last one tried) gives sub-sentence splits.
\* The result is <<pieces, is_sentence>>.
_get_splits_by_fns(text, lo, hi) ==
    LET by_par == split_by_sep(text, lo, hi, paragraph_separator)
        by_sent == split_by_sentence_tokenizer(text, lo, hi)
        by_regex == split_by_regex(text, lo, hi)
        by_word == split_by_sep(text, lo, hi, separator)
    IN  IF Len(by_par) > 1 THEN <<by_par, TRUE>>
        ELSE IF Len(by_sent) > 1 THEN <<by_sent, TRUE>>
        ELSE IF Len(by_regex) > 1 THEN <<by_regex, FALSE>>
        ELSE IF Len(by_word) > 1 THEN <<by_word, FALSE>>
        ELSE <<split_by_char(text, lo, hi), FALSE>>

\* A split: a range of the document text, whether it is a whole sentence,
\* and its size in tokens.
Split(text, lo, hi, is_sentence) ==
    [lo |-> lo, hi |-> hi, is_sentence |-> is_sentence,
     token_size |-> token_size(Sub(text, lo, hi))]

\* _split: break text[lo..hi] into splits of at most chunk_size tokens.
RECURSIVE _split(_, _, _, _)
RECURSIVE SplitEach(_, _, _, _, _)
SplitEach(text, pieces, k, is_sentence, chunk_size) ==
    IF k > Len(pieces) THEN <<>>
    ELSE LET lo == pieces[k][1]
             hi == pieces[k][2]
             here == IF token_size(Sub(text, lo, hi)) <= chunk_size
                     THEN << Split(text, lo, hi, is_sentence) >>
                     ELSE _split(text, lo, hi, chunk_size)
         IN  here \o SplitEach(text, pieces, k + 1, is_sentence, chunk_size)

_split(text, lo, hi, chunk_size) ==
    IF token_size(Sub(text, lo, hi)) <= chunk_size
    THEN << Split(text, lo, hi, TRUE) >>
    ELSE LET by == _get_splits_by_fns(text, lo, hi)
         IN  SplitEach(text, by[1], 1, by[2], chunk_size)

\* ------------------------------------------------------------------ _merge
\* The text of a chunk: "".join of the texts of its splits.
RECURSIVE JoinSplits(_, _, _)
JoinSplits(text, chunk, k) ==
    IF k > Len(chunk) THEN <<>>
    ELSE Sub(text, chunk[k].lo, chunk[k].hi) \o JoinSplits(text, chunk, k + 1)

ChunkText(text, chunk) == JoinSplits(text, chunk, 1)

\* The local state of _merge at the head of its while loop.
MergeInit(splits) ==
    [splits |-> splits, chunks |-> <<>>, cur_chunk |-> <<>>,
     last_chunk |-> <<>>, cur_chunk_len |-> 0, new_chunk |-> TRUE,
     error |-> "none"]

\* the overlap loop with < in place of <=
OverlapFitsStrictly(cur_chunk_len, length, chunk_overlap) ==
    cur_chunk_len + length < chunk_overlap

\* The condition of the overlap loop of close_chunk.
OverlapFits(cur_chunk_len, length, chunk_overlap) ==
    cur_chunk_len + length <= chunk_overlap

\* The overlap loop of close_chunk: walking the closed chunk from its last
\* split backwards, splits are put in front of the next chunk while their
\* total size stays within chunk_overlap.  The result is
\* <<cur_chunk, cur_chunk_len>>.
RECURSIVE AddOverlap(_, _, _, _, _)
AddOverlap(last_chunk, last_index, cur_chunk, cur_chunk_len, chunk_overlap) ==
    IF /\ last_index >= 1
       /\ OverlapFits(cur_chunk_len, last_chunk[last_index].token_size, chunk_overlap)
    THEN AddOverlap(last_chunk, last_index - 1,
                    <<last_chunk[last_index]>> \o cur_chunk,
                    cur_chunk_len + last_chunk[last_index].token_size,
                    chunk_overlap)
    ELSE <<cur_chunk, cur_chunk_len>>

\* close_chunk: the current chunk is stored, and the next one is opened
\* with the overlap taken from it.
close_chunk(st, chunk_overlap) ==
    LET over == AddOverlap(st.cur_chunk, Len(st.cur_chunk), <<>>, 0, chunk_overlap)
    IN  [st EXCEPT !.chunks = Append(st.chunks, st.cur_chunk),
                   !.last_chunk = st.cur_chunk,
                   !.cur_chunk = over[1],
                   !.cur_chunk_len = over[2],
                   !.new_chunk = TRUE]

\* The test that closes the current chunk before the next split is added.
MustClose(st, cur_split, chunk_size) ==
    st.cur_chunk_len + cur_split.token_size > chunk_size /\ ~st.new_chunk

\* One iteration of the while loop of _merge.
MergeStep(st, chunk_size, chunk_overlap) ==
    LET cur_split == Head(st.splits)
    IN  IF cur_split.token_size > chunk_size
        THEN [st EXCEPT !.error = "ValueError"]
        ELSE IF MustClose(st, cur_split, chunk_size)
        THEN close_chunk(st, chunk_overlap)
        ELSE IF \/ cur_split.is_sentence
                \/ st.cur_chunk_len + cur_split.token_size <= chunk_size
                \/ st.new_chunk
        THEN [st EXCEPT !.cur_chunk_len = st.cur_chunk_len + cur_split.token_size,
                        !.cur_chunk = Append(st.cur_chunk, cur_split),
                        !.splits = Tail(st.splits),
                        !.new_chunk = FALSE]
        ELSE close_chunk(st, chunk_overlap)

MergeLooping(st) == Len(st.splits) > 0 /\ st.error = "none"

\* After the loop: the chunk under construction is the last chunk.
MergeFinish(st) ==
    IF ~st.new_chunk THEN Append(st.chunks, st.cur_chunk) ELSE st.chunks

RECURSIVE MergeRun(_, _, _)
MergeRun(st, chunk_size, chunk_overlap) ==
    IF MergeLooping(st)
    THEN MergeRun(MergeStep(st, chunk_size, chunk_overlap), chunk_size, chunk_overlap)
    ELSE st

\* _merge up to its post-processing: the chunks as sequences of splits.
_merge(splits, chunk_size, chunk_overlap) ==
    MergeFinish(MergeRun(MergeInit(splits), chunk_size, chunk_overlap))

\* _postprocess_chunks keeps a chunk when something is left of it after
\* strip().
Kept(text, chunk) == strip(ChunkText(text, chunk)) # <<>>

\* _postprocess_chunks: strip every chunk and drop the chunks that are
\* empty after it.
_postprocess_chunks(chunks) ==
    LET stripped == [k \in 1..Len(chunks) |-> strip(chunks[k])]
    IN  SelectSeq(stripped, LAMBDA c : c # <<>>)

\* The chunks of text before post-processing, as sequences of splits.
RawChunks(text, chunk_size, chunk_overlap) ==
    _merge(_split(text, 1, Len(text), chunk_size), chunk_size, chunk_overlap)

\* split_text: the empty text is returned as its own single chunk;
\* any other text is split, merged and post-processed.
split_text(text, chunk_size, chunk_overlap) ==
    IF text = <<>> THEN << text >>
    ELSE LET raw == RawChunks(text, chunk_size, chunk_overlap)
         IN  _postprocess_chunks([k \in 1..Len(raw) |-> ChunkText(text, raw[k])])

\* ------------------------------------------------------- notebook state
VARIABLES
    documents,      \* the documents load_data() returned
    args,           \* the chunk_size and chunk_overlap handed to SentenceSplitter
    text_splitter,  \* the SentenceSplitter: its chunk_size and chunk_overlap
    pc,             \* position in the indexing cell
    d,              \* index of the current document of the outer loop
    chunks,         \* split_text(document.text) of the current document
    idx,            \* enumerate index of the inner loop
    document_data,  \* the chunk records appended so far
    embed_calls,    \* the inputs of the embeddings.create calls issued so far
    embeddings,     \* the list of embeddings taken from document_data
    metadatas,      \* the list of metadatas taken from document_data
    ids,            \* the list of ids taken from document_data
    collection,     \* the entries of the 'malazan' collection, in insertion order
    error,          \* the exception that ended the cell, "none" if none
    mpc,            \* position inside one split_text call run step by step
    m,              \* local state of _merge in that call
    query,          \* the question of the retrieval and generation cells
    result,         \* what collection.query returned: positions in the collection
    context,        \* result["documents"][0]: the texts of the retrieved chunks
    message,        \* the formatted prompt
    calls,          \* the calls to external services issued so far, in order
    index,          \* the nodes of the VectorStoreIndex of the post-retrieval notebook
    reranker,       \* the node postprocessor of the query engine
    nodes,          \* the nodes a retriever returned
    source_nodes,   \* response.source_nodes: the nodes handed to generation
    response,       \* the answer of a query engine
    raget_testset,  \* the questions of the generated test set
    answers,        \* the answers evaluate has collected for the test set so far
    base_report,    \* the report of the evaluation of the baseline pipeline
    flare_report,   \* the report of the evaluation of the FLARE pipeline
    knowledge_base, \* the KnowledgeBase made of the text nodes
    saved,          \* the lines of the file the test set was saved to
    stream,         \* the events of the completion stream being consumed
    consumed,       \* the number of events the for loop has taken from stream
    output,         \* the text accumulated from the events
    displayed,      \* what display(Markdown(output), clear=True) shows
    query_engine,   \* the fields of the RAGQueryEngine
    printed         \* the prompt custom_query printed

vars == <<documents, args, text_splitter, pc, d, chunks, idx, document_data,
          embed_calls, embeddings, metadatas, ids, collection, error, mpc, m,
          query, result, context, message, calls,
          index, reranker, nodes, source_nodes, response,
          raget_testset, answers, base_report, flare_report, knowledge_base, saved,
          stream, consumed, output, displayed, query_engine, printed>>

\* the variables of the retrieval and generation cells
session == <<query, result, context, message, calls>>

\* the variables of the LlamaIndex query engines
engine == <<index, reranker, nodes, source_nodes, response>>

\* the variables of the evaluation notebook
evaluation == <<raget_testset, answers, base_report, flare_report, knowledge_base, saved>>

\* the variables of the streaming loops of the Generation cells
streaming == <<stream, consumed, output, displayed>>

\* the variables of the custom query engine
custom == <<query_engine, printed>>

\* no custom query engine has been built
CustomIdle ==
    /\ query_engine = <<>>
    /\ printed = <<>>

\* no stream has been opened
StreamIdle ==
    /\ stream = <<>>
    /\ consumed = 0
    /\ output = <<>>
    /\ displayed = <<>>

\* no test set has been generated and no pipeline evaluated
EvaluationIdle ==
    /\ raget_testset = <<>>
    /\ answers = <<>>
    /\ base_report = <<>>
    /\ flare_report = <<>>
    /\ knowledge_base = <<>>
    /\ saved = <<>>

\* no query engine has been built or asked
EngineIdle ==
    /\ index = <<>>
    /\ reranker = "none"
    /\ nodes = <<>>
    /\ source_nodes = <<>>
    /\ response = <<>>

\* no retrieval or generation cell has run
SessionIdle ==
    /\ query = <<>>
    /\ result = <<>>
    /\ context = <<>>
    /\ message = <<>>
    /\ calls = <<>>
    /\ EngineIdle
    /\ EvaluationIdle
    /\ StreamIdle
    /\ CustomIdle

\* the variables of the cells after the indexing cell
store == <<embeddings, metadatas, ids, collection>>

Vectors == 1..NumVectors

\* model="text-embedding-3-small" of embeddings.create
EmbeddingModel == "text-embedding-3-small"

\* The exceptions a call to an external service may raise.
ServiceErrors == {"APIConnectionError", "RateLimitError"}

\* One call to an external service: status is "pending" while the caller
\* waits, then "ok" with the response or "error" with the exception raised.
Call(service, model, input, status, reply) ==
    [service |-> service, model |-> model, input |-> input,
     status |-> status, response |-> reply]

\* The 8-token text of the chunk-optimization example.
ExampleText == <<"A", " ", "B", " ", "C", " ", "D", " ", "E", " ", "F", " ", "G", " ", "H">>

\* A text of three sentences: "A. B C. D"
SentenceText == <<"A", ".", " ", "B", " ", "C", ".", " ", "D">>

\* Texts of the documents of two-document runs.
SampleTexts == {<<>>, <<"a", " ", "a">>, <<"a", ".", " ", "a">>}

Document(id_, text, metadata) == [id_ |-> id_, text |-> text, metadata |-> metadata]

\* What SimpleDirectoryReader.load_data() may return: documents with
\* pairwise distinct ids, each with the metadata of the file it was read
\* from (several documents may come from one file).
DocumentLists ==
    {<<Document("d1", t, "f1")>> : t \in Texts \cup {ExampleText, SentenceText}}
    \cup {<<Document("d1", t1, "f1"), Document(id2, t2, f)>> :
            t1 \in SampleTexts, t2 \in SampleTexts, f \in {"f1", "f2"},
            id2 \in {"d2", "d1-0"}}

NoSplitter == [chunk_size |-> 0, chunk_overlap |-> 0]

Init ==
    /\ documents \in DocumentLists
    /\ args = NoSplitter
    /\ text_splitter = NoSplitter
    /\ pc = "construct"
    /\ d = 1
    /\ chunks = <<>>
    /\ idx = 0
    /\ document_data = <<>>
    /\ embed_calls = <<>>
    /\ embeddings = <<>>
    /\ metadatas = <<>>
    /\ ids = <<>>
    /\ collection = <<>>
    /\ error = "none"
    /\ mpc = "idle"
    /\ m = MergeInit(<<>>)
    /\ SessionIdle

\* SentenceSplitter.__init__: a chunk_overlap larger than chunk_size raises
\* ValueError; after that the field validation (chunk_size > 0) raises
\* ValidationError.  "none" when the arguments are accepted.
ConstructError(chunk_size, chunk_overlap) ==
    IF chunk_overlap > chunk_size THEN "ValueError"
    ELSE IF ~(chunk_size > 0) THEN "ValidationError"
    ELSE "none"

\* text_splitter = SentenceSplitter(chunk_size=..., chunk_overlap=...).
\* The notebook passes 512 and 20; the two arguments are drawn from small
\* ranges here, so that a document of a few characters spans several
\* chunks and the refused configurations are tried as well.
Construct ==
    /\ pc = "construct"
    /\ \E chunk_size \in 0..MaxSize, chunk_overlap \in 0..MaxOverlap :
         /\ args' = [chunk_size |-> chunk_size, chunk_overlap |-> chunk_overlap]
         /\ IF ConstructError(chunk_size, chunk_overlap) # "none"
            THEN /\ error' = ConstructError(chunk_size, chunk_overlap)
                 /\ pc' = "error"
                 /\ UNCHANGED <<text_splitter, document_data>>
            ELSE /\ text_splitter' = [chunk_size |-> chunk_size,
                                      chunk_overlap |-> chunk_overlap]
                 /\ document_data' = <<>>
                 /\ pc' = "for_document"
                 /\ UNCHANGED error
    /\ UNCHANGED <<documents, d, chunks, idx, embed_calls, store, mpc, m>>
    /\ UNCHANGED session
    /\ UNCHANGED <<engine, evaluation, streaming, custom>>

\* for document in documents: chunks = text_splitter.split_text(document.text)
ForDocument ==
    /\ pc = "for_document"
    /\ d <= Len(documents)
    /\ chunks' = split_text(documents[d].text, text_splitter.chunk_size,
                            text_splitter.chunk_overlap)
    /\ idx' = 0
    /\ pc' = "for_chunk"
    /\ UNCHANGED <<documents, args, text_splitter, d, document_data, embed_calls,
                   store, error, mpc, m>>
    /\ UNCHANGED session
    /\ UNCHANGED <<engine, evaluation, streaming, custom>>

\* the outer loop is exhausted: the cell is done
EndDocuments ==
    /\ pc = "for_document"
    /\ d > Len(documents)
    /\ pc' = "indexed"
    /\ UNCHANGED <<documents, args, text_splitter, d, chunks, idx, document_data,
                   embed_calls, store, error, mpc, m>>
    /\ UNCHANGED session
    /\ UNCHANGED <<engine, evaluation, streaming, custom>>

\* the id of the document alone: f"{document.id_}"
ChunkIdOfDocument(document, position) == <<document.id_, 0>>

\* f"{document.id_}-{idx}", as the pair of its two fields
ChunkId(document, position) == <<document.id_, position>>

\* the record numbered from 1 instead of 0
ChunkRecordFromOne(document, position, chunk, embedding) ==
    [id |-> <<document.id_, position + 1>>,
     text |-> chunk,
     metadata |-> document.metadata,
     embedding |-> embedding]

\* The record appended for chunk idx of document.
ChunkRecord(document, position, chunk, embedding) ==
    [id |-> ChunkId(document, position),
     text |-> chunk,
     metadata |-> document.metadata,
     embedding |-> embedding]

\* the embedding of the chunk is requested twice and the second answer is
\* stored
EmbedChunkAgain ==
    /\ pc = "for_chunk"
    /\ idx < Len(chunks)
    /\ embed_calls' = Append(embed_calls, chunks[idx + 1])
    /\ \E first \in Vectors, embedding \in Vectors :
         /\ calls' = calls \o <<Call("embeddings", EmbeddingModel, chunks[idx + 1],
                                     "ok", first),
                                Call("embeddings", EmbeddingModel, chunks[idx + 1],
                                     "ok", embedding)>>
         /\ document_data' = Append(document_data,
                ChunkRecord(documents[d], idx, chunks[idx + 1], embedding))
    /\ idx' = idx + 1
    /\ UNCHANGED <<documents, args, text_splitter, pc, d, chunks, store, error, mpc, m>>
    /\ UNCHANGED <<query, result, context, message>>
    /\ UNCHANGED <<engine, evaluation, streaming, custom>>

\* for idx, chunk in enumerate(chunks): the embedding of the chunk is
\* requested and, when the service answers, the record is appended.
EmbedChunk ==
    /\ pc = "for_chunk"
    /\ idx < Len(chunks)
    /\ embed_calls' = Append(embed_calls, chunks[idx + 1])
    /\ \E embedding \in Vectors :
         /\ calls' = Append(calls, Call("embeddings", EmbeddingModel, chunks[idx + 1],
                                        "ok", embedding))
         /\ document_data' = Append(document_data,
                ChunkRecord(documents[d], idx, chunks[idx + 1], embedding))
    /\ idx' = idx + 1
    /\ UNCHANGED <<documents, args, text_splitter, pc, d, chunks, store, error, mpc, m>>
    /\ UNCHANGED <<query, result, context, message>>
    /\ UNCHANGED <<engine, evaluation, streaming, custom>>

\* the exception of the embedding call is caught and the loop goes on with
\* the next chunk
EmbedFailsSwallowed ==
    /\ pc = "for_chunk"
    /\ idx < Len(chunks)
    /\ embed_calls' = Append(embed_calls, chunks[idx + 1])
    /\ \E e \in ServiceErrors :
         calls' = Append(calls, Call("embeddings", EmbeddingModel, chunks[idx + 1],
                                    "error", e))
    /\ idx' = idx + 1
    /\ UNCHANGED <<documents, args, text_splitter, pc, d, chunks, document_data,
                   store, error, mpc, m>>
    /\ UNCHANGED <<query, result, context, message>>
    /\ UNCHANGED <<engine, evaluation, streaming, custom>>

\* the embedding call raises: the exception ends the cell
EmbedFails ==
    /\ pc = "for_chunk"
    /\ idx < Len(chunks)
    /\ embed_calls' = Append(embed_calls, chunks[idx + 1])
    /\ \E e \in ServiceErrors :
         /\ calls' = Append(calls, Call("embeddings", EmbeddingModel, chunks[idx + 1],
                                        "error", e))
         /\ error' = e
    /\ pc' = "error"
    /\ UNCHANGED <<documents, args, text_splitter, d, chunks, idx, document_data,
                   store, mpc, m>>
    /\ UNCHANGED <<query, result, context, message>>
    /\ UNCHANGED <<engine, evaluation, streaming, custom>>

\* the inner loop is exhausted: on to the next document
EndChunks ==
    /\ pc = "for_chunk"
    /\ idx >= Len(chunks)
    /\ d' = d + 1
    /\ pc' = "for_document"
    /\ UNCHANGED <<documents, args, text_splitter, chunks, idx, document_data,
                   embed_calls, store, error, mpc, m>>
    /\ UNCHANGED session
    /\ UNCHANGED <<engine, evaluation, streaming, custom>>

\* the embeddings are taken out of the records: doc.pop("embedding")
ExtractListsPopping ==
    /\ pc = "indexed"
    /\ documents' = [k \in 1..Len(document_data) |-> document_data[k].text]
    /\ embeddings' = [k \in 1..Len(document_data) |-> document_data[k].embedding]
    /\ metadatas' = [k \in 1..Len(document_data) |-> document_data[k].metadata]
    /\ ids' = [k \in 1..Len(document_data) |-> document_data[k].id]
    /\ document_data' = [k \in 1..Len(document_data) |->
                            [document_data[k] EXCEPT !.embedding = 0]]
    /\ pc' = "extracted"
    /\ UNCHANGED <<args, text_splitter, d, chunks, idx, embed_calls,
                   collection, error, mpc, m>>
    /\ UNCHANGED session
    /\ UNCHANGED <<engine, evaluation, streaming, custom>>

\* documents = [doc["text"] ...]; embeddings = ...; metadatas = ...; ids = ...
\* (the name documents is bound anew to the list of chunk texts)
ExtractLists ==
    /\ pc = "indexed"
    /\ documents' = [k \in 1..Len(document_data) |-> document_data[k].text]
    /\ embeddings' = [k \in 1..Len(document_data) |-> document_data[k].embedding]
    /\ metadatas' = [k \in 1..Len(document_data) |-> document_data[k].metadata]
    /\ ids' = [k \in 1..Len(document_data) |-> document_data[k].id]
    /\ pc' = "extracted"
    /\ UNCHANGED <<args, text_splitter, d, chunks, idx, document_data, embed_calls,
                   collection, error, mpc, m>>
    /\ UNCHANGED session
    /\ UNCHANGED <<engine, evaluation, streaming, custom>>

\* the collection is opened as it is, without chroma_client.reset()
OpenCollection ==
    /\ pc = "extracted"
    /\ pc' = "created"
    /\ UNCHANGED <<documents, args, text_splitter, d, chunks, idx, document_data,
                   embed_calls, store, error, mpc, m>>
    /\ UNCHANGED session
    /\ UNCHANGED <<engine, evaluation, streaming, custom>>

\* chroma_client.reset(); collection = get_or_create_collection("malazan")
ResetCollection ==
    /\ pc = "extracted"
    /\ collection' = <<>>
    /\ pc' = "created"
    /\ UNCHANGED <<documents, args, text_splitter, d, chunks, idx, document_data,
                   embed_calls, embeddings, metadatas, ids, error, mpc, m>>
    /\ UNCHANGED session
    /\ UNCHANGED <<engine, evaluation, streaming, custom>>

\* The entry collection.add stores for position k of its four lists.
Entry(k) ==
    [id |-> ids[k], embedding |-> embeddings[k], document |-> documents[k],
     metadata |-> metadatas[k]]

\* collection.add(embeddings=..., documents=..., metadatas=..., ids=...):
\* an empty list of ids is refused with ValueError
Add ==
    /\ pc = "created"
    /\ IF ids = <<>>
       THEN /\ error' = "ValueError"
            /\ pc' = "error"
            /\ UNCHANGED collection
       ELSE /\ collection' = collection \o [k \in 1..Len(ids) |-> Entry(k)]
            /\ pc' = "added"
            /\ UNCHANGED error
    /\ UNCHANGED <<documents, args, text_splitter, d, chunks, idx, document_data,
                   embed_calls, embeddings, metadatas, ids, mpc, m>>
    /\ UNCHANGED session
    /\ UNCHANGED <<engine, evaluation, streaming, custom>>

Next ==
    \/ Construct
    \/ ForDocument
    \/ EndDocuments
    \/ EmbedChunk
    \/ EmbedFails
    \/ EndChunks
    \/ ExtractLists
    \/ ResetCollection
    \/ Add

Spec == Init /\ [][Next]_vars

\* ------------------------------------------- one split_text call, stepwise
\* The call text_splitter.split_text(document.text) of the indexing cell,
\* one iteration of the while loop of _merge per step.  The initial state
\* is the call at the head of that loop, the text broken into splits; the
\* empty text has been returned at once as its own single chunk.
InitSplit ==
    /\ documents \in {<<Document("d1", t, "f1")>> :
                        t \in Texts \cup {ExampleText, SentenceText}}
    /\ args \in {[chunk_size |-> s, chunk_overlap |-> o] :
                   s \in 1..MaxSize, o \in 0..MaxOverlap}
    /\ ConstructError(args.chunk_size, args.chunk_overlap) = "none"
    /\ text_splitter = args
    /\ pc = "for_document"
    /\ d = 1
    /\ idx = 0
    /\ document_data = <<>>
    /\ embed_calls = <<>>
    /\ embeddings = <<>>
    /\ metadatas = <<>>
    /\ ids = <<>>
    /\ collection = <<>>
    /\ error = "none"
    /\ SessionIdle
    /\ IF documents[d].text = <<>>
       THEN /\ chunks = << documents[d].text >>
            /\ mpc = "returned"
            /\ m = MergeInit(<<>>)
       ELSE /\ chunks = <<>>
            /\ mpc = "merge"
            /\ m = MergeInit(_split(documents[d].text, 1, Len(documents[d].text),
                                    text_splitter.chunk_size))

notebook == <<documents, args, text_splitter, pc, d, idx, document_data,
              embed_calls, store, error, session, engine, evaluation, streaming, custom>>

\* while len(splits) > 0: one iteration
MergeIteration ==
    /\ mpc = "merge"
    /\ MergeLooping(m)
    /\ m' = MergeStep(m, text_splitter.chunk_size, text_splitter.chunk_overlap)
    /\ UNCHANGED <<chunks, mpc>>
    /\ UNCHANGED notebook

\* the loop has ended: the last chunk is closed, the chunks are
\* post-processed and returned
MergeReturn ==
    /\ mpc = "merge"
    /\ ~MergeLooping(m)
    /\ LET raw == MergeFinish(m)
       IN  chunks' = _postprocess_chunks(
               [k \in 1..Len(raw) |-> ChunkText(documents[d].text, raw[k])])
    /\ mpc' = "returned"
    /\ UNCHANGED m
    /\ UNCHANGED notebook

NextSplit ==
    \/ MergeIteration
    \/ MergeReturn

\* The call runs in one thread with nothing to wait for: a step that can
\* be taken is taken.
SpecSplit == InitSplit /\ [][NextSplit]_vars /\ WF_vars(NextSplit)

\* ===================================================== retrieval, generation
\* The cells of baseline-rag.ipynb after the indexing cells: a question is
\* set, the collection is queried, the prompt is formatted and the chat
\* service is called twice.  Every call to an external service takes two
\* steps, the request and its outcome, and the cell waits in between.

\* the embedding function without model_name: the default of the class
openai_ef_default == [model_name |-> "text-embedding-ada-002"]

\* openai_ef: the embedding function handed to the collection
openai_ef == [model_name |-> "text-embedding-3-small"]

\* n_results of collection.query
n_results == 5

\* model of chat.completions.create
ChatModel == "gpt-4-turbo"

\* The three cells that set the question.
Queries ==
    {<<"What was the titles of Anomander Rake?">>, <<"Who is Tayschrenn?">>,
     <<"What is Kurald Galain?">>}

\* What the chat service may answer.
Answers == {<<"answer 1">>, <<"answer 2">>}

\* The entry the indexing cells store for chunk number k of a document: its
\* text is k characters long, its vector one of Vectors.
StoredEntry(k, r) ==
    [id |-> <<"d1", k - 1>>,
     embedding |-> ((k + r) % NumVectors) + 1,
     document |-> [i \in 1..k |-> "x"],
     metadata |-> "f1"]

\* The collections the indexing cells may leave behind.
IndexedCollections ==
    {[k \in 1..n |-> StoredEntry(k, r)] : n \in 1..MaxStored, r \in 0..(NumVectors - 1)}

\* The coordinates of a vector of the embedding space.
Coord(v) == <<v, NumVectors + 1 - v>>

Dot(a, b) == Coord(a)[1] * Coord(b)[1] + Coord(a)[2] * Coord(b)[2]

\* hnsw:space cosine: the distance 1 - cos(q, a) is at most 1 - cos(q, b).
\* All coordinates are positive, so the cosines compare as their squares.
CosineNoFarther(q, a, b) ==
    Dot(q, a) * Dot(q, a) * Dot(b, b) >= Dot(q, b) * Dot(q, b) * Dot(a, a)

\* The nearest-first listings of k of the stored entries rem: the next
\* position is an entry no other remaining entry is nearer than; entries at
\* the same distance come in any order.
RECURSIVE Nearest(_, _, _, _)
Nearest(coll, q, rem, k) ==
    IF k = 0 \/ rem = {} THEN {<<>>}
    ELSE UNION {{<<i>> \o r : r \in Nearest(coll, q, rem \ {i}, k - 1)} :
                  i \in {j \in rem : \A l \in rem :
                            CosineNoFarther(q, coll[j].embedding, coll[l].embedding)}}

\* the first n entries in the order they were added, without ranking
QueryUnranked(coll, q, n) ==
    {[k \in 1..(IF n < Len(coll) THEN n ELSE Len(coll)) |-> k]}

\* collection.query(query_embeddings=[q], n_results=n): the positions of the
\* n nearest entries, all entries when fewer than n are stored.
Query(coll, q, n) == Nearest(coll, q, 1..Len(coll), n)

\* "\n\n".join(context)
RECURSIVE Join(_, _)
Join(texts, k) ==
    IF k > Len(texts) THEN <<>>
    ELSE (IF k = 1 THEN <<>> ELSE <<"\n", "\n">>) \o texts[k] \o Join(texts, k + 1)

\* The parts of the prompt template around {query} and {context}.
PromptHead == <<"You are a helpful assistant ... using provided context.", "Question: ">>
PromptMid == <<"Context: ", "-----">>
PromptTail == <<"-----">>

\* prompt.format(query=query, context=context)
Format(q, c) == PromptHead \o q \o PromptMid \o c \o PromptTail

Pending(cs) == {k \in 1..Len(cs) : cs[k].status = "pending"}

\* The outcome of the call the cell is waiting for is entered in the log.
Settle(cs, status, reply) ==
    [cs EXCEPT ![Len(cs)].status = status, ![Len(cs)].response = reply]

\* the state after the indexing cells ran to their end
InitRag ==
    /\ collection \in IndexedCollections
    /\ documents = [k \in 1..Len(collection) |-> collection[k].document]
    /\ embeddings = [k \in 1..Len(collection) |-> collection[k].embedding]
    /\ metadatas = [k \in 1..Len(collection) |-> collection[k].metadata]
    /\ ids = [k \in 1..Len(collection) |-> collection[k].id]
    /\ document_data = [k \in 1..Len(collection) |->
                          [id |-> collection[k].id, text |-> collection[k].document,
                           metadata |-> collection[k].metadata,
                           embedding |-> collection[k].embedding]]
    /\ embed_calls = documents
    /\ calls = [k \in 1..Len(collection) |->
                  Call("embeddings", EmbeddingModel, collection[k].document, "ok",
                       collection[k].embedding)]
    /\ args = [chunk_size |-> 512, chunk_overlap |-> 20]
    /\ text_splitter = args
    /\ d = 2
    /\ chunks = documents
    /\ idx = Len(chunks)
    /\ pc = "query_cell"
    /\ error = "none"
    /\ mpc = "idle"
    /\ m = MergeInit(<<>>)
    /\ query = <<>>
    /\ result = <<>>
    /\ context = <<>>
    /\ message = <<>>
    /\ EngineIdle
    /\ EvaluationIdle
    /\ StreamIdle
    /\ CustomIdle

\* the variables of the indexing cells, which the later cells leave alone
\* (the collection is read only)
indexed == <<documents, args, text_splitter, d, chunks, idx, document_data,
             embed_calls, store, mpc, m>>

\* query = "...": the three cells that assign query run one after another,
\* each replacing the value the one before it set
SetQuery ==
    /\ pc \in {"query_cell", "retrieve"}
    /\ query' \in Queries
    /\ pc' = "retrieve"
    /\ UNCHANGED <<indexed, error, result, context, message, calls>>
    /\ UNCHANGED <<engine, evaluation, streaming, custom>>

\* the collection is queried with the question of the first of the three
\* cells, whichever cell ran last
QueryCollectionOfFirstCell ==
    /\ pc = "retrieve"
    /\ calls' = Append(calls, Call("embeddings", openai_ef.model_name,
                                   <<"What was the titles of Anomander Rake?">>,
                                   "pending", "none"))
    /\ pc' = "retrieve_wait"
    /\ UNCHANGED <<indexed, error, query, result, context, message>>
    /\ UNCHANGED <<engine, evaluation, streaming, custom>>

\* collection.query(query_texts=[query], n_results=5): the question is sent
\* to the embedding function of the collection
QueryCollection ==
    /\ pc = "retrieve"
    /\ calls' = Append(calls, Call("embeddings", openai_ef.model_name, query,
                                   "pending", "none"))
    /\ pc' = "retrieve_wait"
    /\ UNCHANGED <<indexed, error, query, result, context, message>>
    /\ UNCHANGED <<engine, evaluation, streaming, custom>>

\* the question is embedded: the nearest entries are looked up, and
\* context = result["documents"][0]
QueryReturns ==
    /\ pc = "retrieve_wait"
    /\ \E q \in Vectors :
         /\ calls' = Settle(calls, "ok", q)
         /\ result' \in Query(collection, q, n_results)
    /\ context' = [k \in 1..Len(result') |-> collection[result'[k]].document]
    /\ pc' = "prompt"
    /\ UNCHANGED <<indexed, error, query, message>>
    /\ UNCHANGED <<engine, evaluation, streaming, custom>>

\* message = prompt.format(query=query, context="\n\n".join(context))
FormatPrompt ==
    /\ pc = "prompt"
    /\ message' = Format(query, Join(context, 1))
    /\ pc' = "generate_from_query"
    /\ UNCHANGED <<indexed, error, query, result, context, calls>>
    /\ UNCHANGED <<engine, evaluation, streaming, custom>>

\* chat.completions.create(messages=[{"role": "user", "content": query}], ...)
CreateFromQuery ==
    /\ pc = "generate_from_query"
    /\ calls' = Append(calls, Call("chat", ChatModel, query, "pending", "none"))
    /\ pc' = "generate_from_query_wait"
    /\ UNCHANGED <<indexed, error, query, result, context, message>>
    /\ UNCHANGED <<engine, evaluation, streaming, custom>>

\* the second request is sent without waiting for the end of the first
\* stream
CreateFromMessageEarly ==
    /\ pc \in {"generate_from_message", "generate_from_query_wait"}
    /\ calls' = Append(calls, Call("chat", ChatModel, message, "pending", "none"))
    /\ pc' = "generate_from_message_wait"
    /\ UNCHANGED <<indexed, error, query, result, context, message>>
    /\ UNCHANGED <<engine, evaluation, streaming, custom>>

\* chat.completions.create(messages=[{"role": "user", "content": message}], ...)
CreateFromMessage ==
    /\ pc = "generate_from_message"
    /\ calls' = Append(calls, Call("chat", ChatModel, message, "pending", "none"))
    /\ pc' = "generate_from_message_wait"
    /\ UNCHANGED <<indexed, error, query, result, context, message>>
    /\ UNCHANGED <<engine, evaluation, streaming, custom>>

\* for chunk in stream: the answer has been received, the cell ends
StreamEnds ==
    /\ pc \in {"generate_from_query_wait", "generate_from_message_wait"}
    /\ \E answer \in Answers : calls' = Settle(calls, "ok", answer)
    /\ pc' = IF pc = "generate_from_query_wait" THEN "generate_from_message"
             ELSE "answered"
    /\ UNCHANGED <<indexed, error, query, result, context, message>>
    /\ UNCHANGED <<engine, evaluation, streaming, custom>>

\* ------------------------------------------ the same pipeline with LlamaIndex
\* embedding = OpenAIEmbedding(model="text-embedding-3-small"): a
\* transformation of the ingestion pipeline and the embed_model of the index
embed_model == [model |-> "text-embedding-3-small"]

\* llm = OpenAI(model="gpt-4-turbo")
llm == [model |-> "gpt-4-turbo"]

\* index.as_retriever(): the default of similarity_top_k
default_similarity_top_k == 2

\* The parts of qa_prompt around {context_str} and {query_str}.
QaHead == <<"You are a helpful assistant ... using provided context.",
            "Context information is below.", "-----">>
QaMid == <<"-----", "Given the context information and not prior knowledge, answer the query.",
           "Query: ">>
QaTail == <<"Answer: ">>

\* qa_prompt.format(context_str=context_str, query_str=query_str)
QaFormat(context_str, query_str) == QaHead \o context_str \o QaMid \o query_str \o QaTail

\* The texts of the nodes the SentenceSplitter of the ingestion pipeline
\* makes of the documents the indexing cell made n chunks of: it splits
\* with the metadata counted into the chunk size, so there may be one more.
NodeTexts(n) ==
    {[k \in 1..c |-> [i \in 1..k |-> "x"]] : c \in {n, n + 1} \cap 1..MaxStored}

\* The entry the ingestion pipeline stores for node number k.
NodeEntry(texts, k, r) ==
    [id |-> <<"node", k - 1>>,
     embedding |-> ((k + r) % NumVectors) + 1,
     document |-> texts[k],
     metadata |-> "f1"]

\* The texts of a list, one after the other.
RECURSIVE Concat(_, _)
Concat(texts, k) == IF k > Len(texts) THEN <<>> ELSE texts[k] \o Concat(texts, k + 1)

\* chroma_client.reset(); collection = get_or_create_collection("malazan");
\* vector_store, embedding, llm, pipeline and index are built
SetUpPipeline ==
    /\ pc = "answered"
    /\ collection' = <<>>
    /\ pc' = "pipeline_run"
    /\ UNCHANGED <<documents, args, text_splitter, d, chunks, idx, document_data,
                   embed_calls, embeddings, metadatas, ids, mpc, m>>
    /\ UNCHANGED <<error, session, engine, evaluation, streaming, custom>>

\* documents = load_data(); pipeline.run(documents=documents): the documents
\* are split into nodes and the texts of the nodes are sent to the
\* embedding model
RunPipeline ==
    /\ pc = "pipeline_run"
    /\ documents' = <<Document("d1", Concat(documents, 1), "f1")>>
    /\ \E texts \in NodeTexts(Len(document_data)) :
         calls' = Append(calls, Call("embeddings", embed_model.model, Join(texts, 1),
                                    "pending", texts))
    /\ pc' = "pipeline_wait"
    /\ UNCHANGED <<args, text_splitter, d, chunks, idx, document_data,
                   embed_calls, store, mpc, m>>
    /\ UNCHANGED <<error, query, result, context, message, engine, evaluation, streaming, custom>>

\* the vectors of the nodes arrive: the nodes are added to the collection
PipelineReturns ==
    /\ pc = "pipeline_wait"
    /\ \E r \in 0..(NumVectors - 1) :
         LET texts == calls[Len(calls)].response
             entries == [k \in 1..Len(texts) |-> NodeEntry(texts, k, r)]
         IN  /\ collection' = entries
             /\ calls' = Settle(calls, "ok", [k \in 1..Len(texts) |-> entries[k].embedding])
    /\ pc' = "engine_query"
    /\ UNCHANGED <<documents, args, text_splitter, d, chunks, idx, document_data,
                   embed_calls, embeddings, metadatas, ids, mpc, m>>
    /\ UNCHANGED <<error, query, result, context, message, engine, evaluation, streaming, custom>>

\* response = query_engine.query(query), RAGQueryEngine.custom_query:
\* self.retriever.retrieve(query_str) sends the question to the embed_model
\* of the index
EngineQuery ==
    /\ pc = "engine_query"
    /\ calls' = Append(calls, Call("embeddings", embed_model.model, query,
                                   "pending", "none"))
    /\ pc' = "engine_embed_wait"
    /\ UNCHANGED <<indexed, error, query, result, context, message, engine, evaluation, streaming, custom>>

\* the question is embedded: nodes = the nearest nodes
EngineRetrieves ==
    /\ pc = "engine_embed_wait"
    /\ \E q \in Vectors :
         /\ calls' = Settle(calls, "ok", q)
         /\ nodes' \in Query(collection, q, default_similarity_top_k)
    /\ pc' = "engine_complete"
    /\ UNCHANGED <<indexed, error, query, result, context, message>>
    /\ UNCHANGED <<index, reranker, source_nodes, response, evaluation, streaming, custom>>

\* context_str = "\n\n".join(...); self.llm.complete(qa_prompt.format(...))
EngineCompletes ==
    /\ pc = "engine_complete"
    /\ LET context_str == Join([k \in 1..Len(nodes) |-> collection[nodes[k]].document], 1)
       IN  calls' = Append(calls, Call("chat", llm.model, QaFormat(context_str, query),
                                      "pending", "none"))
    /\ pc' = "engine_complete_wait"
    /\ UNCHANGED <<indexed, error, query, result, context, message, engine, evaluation, streaming, custom>>

\* return str(response)
EngineAnswers ==
    /\ pc = "engine_complete_wait"
    /\ \E answer \in Answers :
         /\ calls' = Settle(calls, "ok", answer)
         /\ response' = answer
    /\ pc' = "engine_answered"
    /\ UNCHANGED <<indexed, error, query, result, context, message>>
    /\ UNCHANGED <<index, reranker, nodes, source_nodes, evaluation, streaming, custom>>

\* The positions at which a cell waits for the outcome of a call.
WaitStates ==
    {"retrieve_wait", "generate_from_query_wait", "generate_from_message_wait",
     "pipeline_wait", "engine_embed_wait", "engine_complete_wait"}

\* the call the cell is waiting for raises: the exception ends the cell
CallRaises ==
    /\ pc \in WaitStates
    /\ \E e \in ServiceErrors :
         /\ calls' = Settle(calls, "error", e)
         /\ error' = e
    /\ pc' = "error"
    /\ UNCHANGED <<indexed, query, result, context, message>>
    /\ UNCHANGED <<engine, evaluation, streaming, custom>>

NextRag ==
    \/ SetQuery
    \/ QueryCollection
    \/ QueryReturns
    \/ FormatPrompt
    \/ CreateFromQuery
    \/ CreateFromMessage
    \/ StreamEnds
    \/ SetUpPipeline
    \/ RunPipeline
    \/ PipelineReturns
    \/ EngineQuery
    \/ EngineRetrieves
    \/ EngineCompletes
    \/ EngineAnswers
    \/ CallRaises

SpecRag == InitRag /\ [][NextRag]_vars

\* ------------------------------------------------------ the streaming loops
\* The two Generation cells, event by event: each opens a completion
\* stream and accumulates the contents of its events in output.

\* delta.content of an event: a piece of text, the empty string or None
Deltas ==
    {[is_none |-> TRUE, content |-> <<>>]} \cup
    {[is_none |-> FALSE, content |-> c] : c \in {<<>>, <<"a">>, <<"b">>}}

\* What the chat service may stream.
Streams == UNION {[1..n -> Deltas] : n \in 0..MaxEvents}

\* None shown as text: f"{None}"
OrNone(delta) == IF delta.is_none THEN <<"None">> ELSE delta.content

\* chunk.choices[0].delta.content or ""
OrEmpty(delta) == IF delta.is_none THEN <<>> ELSE delta.content

\* the state after message = prompt.format(...), one chunk being stored
\* and retrieved
InitStream ==
    /\ collection = <<StoredEntry(1, 0)>>
    /\ documents = <<collection[1].document>>
    /\ embeddings = <<collection[1].embedding>>
    /\ metadatas = <<collection[1].metadata>>
    /\ ids = <<collection[1].id>>
    /\ document_data = <<[id |-> collection[1].id, text |-> collection[1].document,
                          metadata |-> collection[1].metadata,
                          embedding |-> collection[1].embedding]>>
    /\ embed_calls = documents
    /\ query \in Queries
    /\ \E q \in Vectors :
         calls = <<Call("embeddings", EmbeddingModel, collection[1].document, "ok",
                        collection[1].embedding),
                   Call("embeddings", openai_ef.model_name, query, "ok", q)>>
    /\ result = <<1>>
    /\ context = <<collection[1].document>>
    /\ message = Format(query, Join(context, 1))
    /\ args = [chunk_size |-> 512, chunk_overlap |-> 20]
    /\ text_splitter = args
    /\ d = 2
    /\ chunks = documents
    /\ idx = Len(chunks)
    /\ pc = "generate_from_query"
    /\ error = "none"
    /\ mpc = "idle"
    /\ m = MergeInit(<<>>)
    /\ EngineIdle
    /\ EvaluationIdle
    /\ StreamIdle
    /\ CustomIdle

\* the variables the streaming loops leave alone
prompted == <<indexed, query, result, context, message, engine, evaluation, custom>>

\* stream = chat.completions.create(messages=[...], stream=True);
\* output = ""
OpenStream ==
    /\ pc \in {"generate_from_query", "generate_from_message"}
    /\ calls' = Append(calls, Call("chat", ChatModel,
                                   IF pc = "generate_from_query" THEN query ELSE message,
                                   "pending", "none"))
    /\ stream' \in Streams
    /\ consumed' = 0
    /\ output' = <<>>
    /\ pc' = IF pc = "generate_from_query" THEN "stream_of_query" ELSE "stream_of_message"
    /\ UNCHANGED <<prompted, error, displayed>>

\* for chunk in stream: output += chunk.choices[0].delta.content or "";
\* display(Markdown(f"{output}"), clear=True)
NextEvent ==
    /\ pc \in {"stream_of_query", "stream_of_message"}
    /\ consumed < Len(stream)
    /\ output' = output \o OrEmpty(stream[consumed + 1])
    /\ displayed' = output'
    /\ consumed' = consumed + 1
    /\ UNCHANGED <<prompted, pc, error, calls, stream>>

\* the stream is exhausted: the loop and the cell end
StreamExhausted ==
    /\ pc \in {"stream_of_query", "stream_of_message"}
    /\ consumed = Len(stream)
    /\ calls' = Settle(calls, "ok", output)
    /\ pc' = IF pc = "stream_of_query" THEN "generate_from_message" ELSE "answered"
    /\ UNCHANGED <<prompted, error, streaming>>

\* the connection breaks while the loop waits for the next event: the
\* exception ends the cell
StreamBreaks ==
    /\ pc \in {"stream_of_query", "stream_of_message"}
    /\ consumed < Len(stream)
    /\ \E e \in ServiceErrors :
         /\ calls' = Settle(calls, "error", e)
         /\ error' = e
    /\ pc' = "error"
    /\ UNCHANGED <<prompted, streaming>>

NextStream ==
    \/ OpenStream
    \/ NextEvent
    \/ StreamExhausted
    \/ StreamBreaks

SpecStream == InitStream /\ [][NextStream]_vars

\* ------------------------------------------------- the custom query engine
\* RAGQueryEngine, the CustomQueryEngine of the notebook, asked one
\* question.  The engine is a value of the class: its qa_prompt field is
\* whatever template it was constructed with.

\* qa_prompt: the template of the notebook
qa_prompt == [head |-> QaHead, mid |-> QaMid, tail |-> QaTail]

\* The templates a RAGQueryEngine may be constructed with.
Templates ==
    {qa_prompt,
     [head |-> <<"Context: ">>, mid |-> <<"Question: ">>, tail |-> <<>>]}

\* template.format(context_str=context_str, query_str=query_str)
TemplateFormat(template, context_str, query_str) ==
    template.head \o context_str \o template.mid \o query_str \o template.tail

\* The texts of n nodes.
StoredTexts(n) == [k \in 1..n |-> [i \in 1..k |-> "x"]]

\* the state after the pipeline has run, a question has been set and a
\* RAGQueryEngine has been constructed
InitCustom ==
    /\ \E n \in 1..MaxStored, r \in 0..(NumVectors - 1) :
         /\ collection = [k \in 1..n |-> NodeEntry(StoredTexts(n), k, r)]
         /\ documents = <<Document("d1", Concat(StoredTexts(n), 1), "f1")>>
         /\ calls = <<Call("embeddings", embed_model.model, Join(StoredTexts(n), 1), "ok",
                           [k \in 1..n |-> collection[k].embedding])>>
    /\ query \in Queries
    /\ query_engine \in
          {[retriever |-> [similarity_top_k |-> default_similarity_top_k],
            response_synthesizer |-> "compact",
            llm |-> llm,
            qa_prompt |-> t] : t \in Templates}
    /\ printed = <<>>
    /\ pc = "custom_query_cell"
    /\ error = "none"
    /\ args = NoSplitter
    /\ text_splitter = NoSplitter
    /\ d = 1
    /\ chunks = <<>>
    /\ idx = 0
    /\ document_data = <<>>
    /\ embed_calls = <<>>
    /\ embeddings = <<>>
    /\ metadatas = <<>>
    /\ ids = <<>>
    /\ mpc = "idle"
    /\ m = MergeInit(<<>>)
    /\ result = <<>>
    /\ context = <<>>
    /\ message = <<>>
    /\ EngineIdle
    /\ EvaluationIdle
    /\ StreamIdle

\* the variables custom_query leaves alone
unqueried == <<indexed, query, result, context, message, index, reranker,
               source_nodes, evaluation, streaming, query_engine>>

\* response = query_engine.query(query): custom_query calls
\* self.retriever.retrieve(query_str), which sends the question to the
\* embed_model of the index
CustomQuery ==
    /\ pc = "custom_query_cell"
    /\ calls' = Append(calls, Call("embeddings", embed_model.model, query,
                                   "pending", "none"))
    /\ pc' = "custom_retrieve_wait"
    /\ UNCHANGED <<unqueried, error, nodes, response, printed>>

\* the retriever returns nodes; context_str = "\n\n".join(...); the
\* formatted prompt is printed, formatted again and sent to self.llm
CustomRetrieved ==
    /\ pc = "custom_retrieve_wait"
    /\ \E q \in Vectors :
         /\ nodes' \in Query(collection, q, query_engine.retriever.similarity_top_k)
         /\ LET context_str ==
                    Join([k \in 1..Len(nodes') |-> collection[nodes'[k]].document], 1)
            IN  /\ printed' = QaFormat(context_str, query)
                /\ calls' = Append(Settle(calls, "ok", q),
                                   Call("chat", query_engine.llm.model,
                                        QaFormat(context_str, query), "pending", "none"))
    /\ pc' = "custom_complete_wait"
    /\ UNCHANGED <<unqueried, error, response>>

\* return str(response)
CustomAnswers ==
    /\ pc = "custom_complete_wait"
    /\ \E answer \in Answers :
         /\ calls' = Settle(calls, "ok", answer)
         /\ response' = answer
    /\ pc' = "custom_answered"
    /\ UNCHANGED <<unqueried, error, nodes, printed>>

\* the call custom_query is waiting for raises
CustomRaises ==
    /\ pc \in {"custom_retrieve_wait", "custom_complete_wait"}
    /\ \E e \in ServiceErrors :
         /\ calls' = Settle(calls, "error", e)
         /\ error' = e
    /\ pc' = "error"
    /\ UNCHANGED <<unqueried, nodes, response, printed>>

NextCustom ==
    \/ CustomQuery
    \/ CustomRetrieved
    \/ CustomAnswers
    \/ CustomRaises

SpecCustom == InitCustom /\ [][NextCustom]_vars

\* ------------------------------------------------ the indexing cells again
\* The indexing cells run once more: the persistent client has the
\* collection of the earlier run on disk, and the names of the notebook
\* are still bound to what that run left.

\* What load_data() returns in the repeated run.
ReloadedLists ==
    {<<Document("d1", t, "f1")>> : t \in SampleTexts \cup {<<" ">>}}
    \cup {<<Document("d1", t1, "f1"), Document("d2", t2, "f2")>> :
            t1 \in SampleTexts, t2 \in SampleTexts}

\* The collections the earlier run may have left on disk.
EarlierCollections == {[k \in 1..n |-> StoredEntry(k, 0)] : n \in 1..MaxStored}

\* the state after documents = load_data() of the repeated run
InitAgain ==
    /\ collection \in EarlierCollections
    /\ documents \in ReloadedLists
    /\ embeddings = [k \in 1..Len(collection) |-> collection[k].embedding]
    /\ metadatas = [k \in 1..Len(collection) |-> collection[k].metadata]
    /\ ids = [k \in 1..Len(collection) |-> collection[k].id]
    /\ document_data = [k \in 1..Len(collection) |->
                          [id |-> collection[k].id, text |-> collection[k].document,
                           metadata |-> collection[k].metadata,
                           embedding |-> collection[k].embedding]]
    /\ embed_calls = [k \in 1..Len(collection) |-> collection[k].document]
    /\ calls = [k \in 1..Len(collection) |->
                  Call("embeddings", EmbeddingModel, collection[k].document, "ok",
                       collection[k].embedding)]
    /\ args = [chunk_size |-> 512, chunk_overlap |-> 20]
    /\ text_splitter = args
    /\ d = 1
    /\ chunks = embed_calls
    /\ idx = Len(chunks)
    /\ pc = "construct"
    /\ error = "none"
    /\ mpc = "idle"
    /\ m = MergeInit(<<>>)
    /\ query = <<>>
    /\ result = <<>>
    /\ context = <<>>
    /\ message = <<>>
    /\ EngineIdle
    /\ EvaluationIdle
    /\ StreamIdle
    /\ CustomIdle

SpecAgain == InitAgain /\ [][Next]_vars

\* ================================================================ reranking
\* The Reranking section of the post-retrieval notebook: a reranker is
\* built (RankGPTRerank or CohereRerank, each in its own cells), a query
\* engine is built with it as node postprocessor, and the question is asked.

\* similarity_top_k of index.as_query_engine
similarity_top_k == 10

\* top_n of RankGPTRerank and of CohereRerank
top_n == 3

\* query = "Describe the later life of Vincent Van Gogh."
RerankQuestion == <<"Describe the later life of Vincent Van Gogh.">>

Rerankers == {"RankGPTRerank", "CohereRerank"}

Min(a, b) == IF a < b THEN a ELSE b

\* The first n elements of a list.
Take(list, n) == SubSeq(list, 1, Min(n, Len(list)))

\* The retriever of the index: the similarity_top_k stored nodes nearest to
\* the question, nearest first.  The nodes are numbered 1..Len(stored); the
\* vector q of the question decides which of them is the nearest, the
\* others follow in the order of their numbers.
Retrieve(stored, q, k) ==
    [i \in 1..Min(k, Len(stored)) |-> stored[((i + q - 2) % Len(stored)) + 1]]

\* What the ranking model may reply: no message at all, or up to MaxReply
\* passage numbers, which may repeat and may name a passage that does not
\* exist.
Replies(n) ==
    {[replied |-> FALSE, content |-> <<>>]} \cup
    {[replied |-> TRUE, content |-> c] : c \in UNION {[1..l -> 1..(n + 1)] : l \in 0..MaxReply}}

\* RankGPTRerank._remove_duplicate: the first occurrence of every number
RECURSIVE RemoveDuplicate(_, _)
RemoveDuplicate(list, k) ==
    IF k > Len(list) THEN <<>>
    ELSE IF \E j \in 1..(k - 1) : list[j] = list[k] THEN RemoveDuplicate(list, k + 1)
    ELSE <<list[k]>> \o RemoveDuplicate(list, k + 1)

\* the numbers of the reply as they come, repetitions included
ReceivePermutationRepeating(n, reply) ==
    LET named == SelectSeq(reply, LAMBDA x : x \in 1..n)
        left == SelectSeq([i \in 1..n |-> i],
                          LAMBDA x : \A j \in 1..Len(named) : named[j] # x)
    IN  named \o left

\* RankGPTRerank._receive_permutation: the numbers of the reply without
\* repetitions and without numbers out of range, then the passages the
\* reply left out, in their original order
ReceivePermutation(n, reply) ==
    LET named == SelectSeq(RemoveDuplicate(reply, 1), LAMBDA x : x \in 1..n)
        left == SelectSeq([i \in 1..n |-> i],
                          LAMBDA x : \A j \in 1..Len(named) : named[j] # x)
    IN  named \o left

\* RankGPTRerank._postprocess_nodes: the nodes in the order of the
\* permutation, cut to top_n; without a reply the first top_n nodes
RankGPT(ns, reply) ==
    IF ~reply.replied THEN Take(ns, top_n)
    ELSE LET perm == ReceivePermutation(Len(ns), reply.content)
         IN  Take([i \in 1..Len(perm) |-> ns[perm[i]]], top_n)

\* What the rerank endpoint may return for n documents: min(top_n, n)
\* results, most relevant first, each naming another document.
CohereResults(n) ==
    {r \in [1..Min(top_n, n) -> 1..n] : \A i \in DOMAIN r, j \in DOMAIN r : i # j => r[i] # r[j]}

\* CohereRerank._postprocess_nodes: the node of every result, in the order
\* of the results
Cohere(ns, results) == [i \in 1..Len(results) |-> ns[results[i]]]

\* the state after index = VectorStoreIndex.from_documents(documents) and
\* query = "..."
InitRerank ==
    /\ index \in {[k \in 1..n |-> k] : n \in 1..MaxNodes}
    /\ query = RerankQuestion
    /\ reranker = "none"
    /\ nodes = <<>>
    /\ source_nodes = <<>>
    /\ response = <<>>
    /\ calls = <<>>
    /\ result = <<>>
    /\ context = <<>>
    /\ message = <<>>
    /\ pc = "reranker_cell"
    /\ error = "none"
    /\ documents = <<>>
    /\ args = NoSplitter
    /\ text_splitter = [chunk_size |-> 124, chunk_overlap |-> 10]
    /\ d = 1
    /\ chunks = <<>>
    /\ idx = 0
    /\ document_data = <<>>
    /\ embed_calls = <<>>
    /\ embeddings = <<>>
    /\ metadatas = <<>>
    /\ ids = <<>>
    /\ collection = <<>>
    /\ mpc = "idle"
    /\ m = MergeInit(<<>>)
    /\ EvaluationIdle
    /\ StreamIdle
    /\ CustomIdle

\* the variables the cells of the Reranking section leave alone
untouched == <<documents, args, text_splitter, d, chunks, idx, document_data,
               embed_calls, store, mpc, m, result, context, message, index, query,
               evaluation, streaming, custom>>

\* reranker = RankGPTRerank(top_n=3, verbose=True), or
\* reranker = CohereRerank(api_key=COHERE_API_KEY, top_n=3, model=...);
\* query_engine = index.as_query_engine(similarity_top_k=10,
\*                                      node_postprocessors=[reranker])
BuildQueryEngine ==
    /\ pc = "reranker_cell"
    /\ reranker' \in Rerankers
    /\ pc' = "query_cell"
    /\ UNCHANGED <<untouched, error, calls, nodes, source_nodes, response>>

\* response = query_engine.query(query): the question is sent to the
\* embedding model
AskEngine ==
    /\ pc = "query_cell"
    /\ calls' = Append(calls, Call("embeddings", "embed_model", query, "pending", "none"))
    /\ pc' = "embed_wait"
    /\ UNCHANGED <<untouched, error, reranker, nodes, source_nodes, response>>

\* the question is embedded: the retriever returns the similarity_top_k
\* nearest nodes, which are sent to the reranker
RetrieveNodes ==
    /\ pc = "embed_wait"
    /\ \E q \in Vectors :
         /\ nodes' = Retrieve(index, q, similarity_top_k)
         /\ calls' = Append(Settle(calls, "ok", q),
                            Call("rerank", reranker, nodes', "pending", "none"))
    /\ pc' = "rerank_wait"
    /\ UNCHANGED <<untouched, error, reranker, source_nodes, response>>

\* the ranking model has replied: the postprocessor returns the reranked
\* nodes, which are sent to the llm with the question
RankGPTReturns ==
    /\ pc = "rerank_wait"
    /\ reranker = "RankGPTRerank"
    /\ \E reply \in Replies(Len(nodes)) :
         /\ source_nodes' = RankGPT(nodes, reply)
         /\ calls' = Append(Settle(calls, "ok", reply),
                            Call("chat", "llm", source_nodes', "pending", "none"))
    /\ pc' = "synthesize_wait"
    /\ UNCHANGED <<untouched, error, reranker, nodes, response>>

\* the rerank endpoint has answered
CohereReturns ==
    /\ pc = "rerank_wait"
    /\ reranker = "CohereRerank"
    /\ \E results \in CohereResults(Len(nodes)) :
         /\ source_nodes' = Cohere(nodes, results)
         /\ calls' = Append(Settle(calls, "ok", results),
                            Call("chat", "llm", source_nodes', "pending", "none"))
    /\ pc' = "synthesize_wait"
    /\ UNCHANGED <<untouched, error, reranker, nodes, response>>

\* the llm has answered: response holds the answer and, as source_nodes,
\* the reranked nodes
Synthesized ==
    /\ pc = "synthesize_wait"
    /\ \E answer \in Answers :
         /\ calls' = Settle(calls, "ok", answer)
         /\ response' = answer
    /\ pc' = "displayed"
    /\ UNCHANGED <<untouched, error, reranker, nodes, source_nodes>>

\* the call query_engine.query is waiting for raises
EngineRaises ==
    /\ pc \in {"embed_wait", "rerank_wait", "synthesize_wait"}
    /\ \E e \in ServiceErrors :
         /\ calls' = Settle(calls, "error", e)
         /\ error' = e
    /\ pc' = "error"
    /\ UNCHANGED <<untouched, reranker, nodes, source_nodes, response>>

NextRerank ==
    \/ BuildQueryEngine
    \/ AskEngine
    \/ RetrieveNodes
    \/ RankGPTReturns
    \/ CohereReturns
    \/ Synthesized
    \/ EngineRaises

SpecRerank == InitRerank /\ [][NextRerank]_vars

\* =============================================================== evaluation
\* The Evaluate section of the evaluation notebook: the baseline pipeline
\* and the FLARE pipeline are evaluated on the generated test set.

\* from giskard.rag.metrics.ragas_metrics import ...
ragas_context_recall == "ragas_context_recall"

ragas_context_precision == "ragas_context_precision"

ragas_faithfulness == "ragas_faithfulness"

\* the metric evaluate always computes
correctness_metric == "correctness"

\* metrics=[...] of base_report = evaluate(base_answer_fn, ...)
base_metrics == <<ragas_faithfulness>>

\* metrics=[...] of flare_report = evaluate(flare_answer_fn, ...)
flare_metrics == <<ragas_faithfulness, ragas_context_recall, ragas_context_precision>>

\* evaluate: correctness is computed first unless the metrics name it
WithCorrectness(metrics) ==
    IF \E i \in 1..Len(metrics) : metrics[i] = correctness_metric THEN metrics
    ELSE <<correctness_metric>> \o metrics

\* evaluate(answer_fn, testset, knowledge_base, metrics): the report, with
\* the answers of answer_fn to the questions of the test set and, for each
\* question, a result of every metric
evaluate(answer_fn, testset, kb, outputs, metrics) ==
    [answer_fn |-> answer_fn,
     testset |-> testset,
     knowledge_base |-> kb,
     model_outputs |-> outputs,
     passed |-> metrics,
     metrics |-> WithCorrectness(metrics)]

\* What KnowledgeBase(data=pd_dataframe) may hold: the texts of the nodes.
KnowledgeBases == {<<"node 1">>, <<"node 1", "node 2">>}

\* sample.conversation_history: empty unless the question is conversational
Histories == {<<>>, <<"earlier message">>}

\* The sample of question number k.
Sample(k, history) ==
    [id |-> k,
     question |-> [i \in 1..k |-> "q"],
     reference_answer |-> <<"reference">>,
     conversation_history |-> history]

\* What generate_testset may return.
Testsets ==
    UNION {{[k \in 1..n |-> Sample(k, h[k])] : h \in [1..n -> Histories]} :
             n \in 1..MaxQuestions}

Columns == <<"id", "question", "reference_answer", "conversation_history">>

\* QATestset.save(path): one line per sample, the values of its columns
Save(testset) ==
    [k \in 1..Len(testset) |->
       [id |-> testset[k].id,
        columns |-> Columns,
        values |-> <<testset[k].question, testset[k].reference_answer,
                     testset[k].conversation_history>>]]

\* the samples read back without their conversation history
LoadWithoutHistory(lines) ==
    [k \in 1..Len(lines) |->
       [id |-> lines[k].id,
        question |-> lines[k].values[1],
        reference_answer |-> lines[k].values[2],
        conversation_history |-> <<>>]]

\* QATestset.load(path): one sample per line
Load(lines) ==
    [k \in 1..Len(lines) |->
       [id |-> lines[k].id,
        question |-> lines[k].values[1],
        reference_answer |-> lines[k].values[2],
        conversation_history |-> lines[k].values[3]]]

\* the state after knowledge_base = KnowledgeBase(data=pd_dataframe)
InitEval ==
    /\ knowledge_base \in KnowledgeBases
    /\ raget_testset = <<>>
    /\ saved = <<>>
    /\ answers = <<>>
    /\ base_report = <<>>
    /\ flare_report = <<>>
    /\ StreamIdle
    /\ CustomIdle
    /\ pc = "generate_cell"
    /\ error = "none"
    /\ calls = <<>>
    /\ query = <<>>
    /\ result = <<>>
    /\ context = <<>>
    /\ message = <<>>
    /\ EngineIdle
    /\ documents = <<>>
    /\ args = NoSplitter
    /\ text_splitter = [chunk_size |-> 512, chunk_overlap |-> 200]
    /\ d = 1
    /\ chunks = <<>>
    /\ idx = 0
    /\ document_data = <<>>
    /\ embed_calls = <<>>
    /\ embeddings = <<>>
    /\ metadatas = <<>>
    /\ ids = <<>>
    /\ collection = <<>>
    /\ mpc = "idle"
    /\ m = MergeInit(<<>>)

\* the variables the cells of the evaluation notebook leave alone
unevaluated == <<documents, args, text_splitter, d, chunks, idx, document_data,
                 embed_calls, store, mpc, m, query, result, context, message,
                 engine, knowledge_base, streaming, custom>>

\* raget_testset = generate_testset(knowledge_base=knowledge_base, ...)
GenerateTestset ==
    /\ pc = "generate_cell"
    /\ raget_testset' \in Testsets
    /\ pc' = "save_cell"
    /\ UNCHANGED <<unevaluated, answers, error, calls, base_report, flare_report, saved>>

\* raget_testset.save(path=path)
SaveTestset ==
    /\ pc = "save_cell"
    /\ saved' = Save(raget_testset)
    /\ pc' = "load_cell"
    /\ UNCHANGED <<unevaluated, raget_testset, answers, error, calls, base_report,
                   flare_report>>

\* raget_testset = QATestset.load(path)
LoadTestset ==
    /\ pc = "load_cell"
    /\ raget_testset' = Load(saved)
    /\ pc' = "base_evaluate_cell"
    /\ UNCHANGED <<unevaluated, answers, error, calls, base_report, flare_report, saved>>

\* the answer function of the evaluate call that is running
AnswerFn == IF pc = "base_answering" THEN "base_answer_fn" ELSE "flare_answer_fn"

\* every answer function queries the baseline engine
EngineOfBase(fn) == "base_query_engine"

\* the query engine base_answer_fn and flare_answer_fn hand to answer_fn
EngineOf(fn) ==
    IF fn = "base_answer_fn" THEN "base_query_engine" ELSE "flare_query_engine"

\* base_report = evaluate(base_answer_fn, ...) is entered
EvaluateBase ==
    /\ pc = "base_evaluate_cell"
    /\ answers' = <<>>
    /\ pc' = "base_answering"
    /\ UNCHANGED <<unevaluated, raget_testset, error, calls, base_report, flare_report,
                   saved>>

\* flare_report = evaluate(flare_answer_fn, ...) is entered
EvaluateFlare ==
    /\ pc = "flare_evaluate_cell"
    /\ answers' = <<>>
    /\ pc' = "flare_answering"
    /\ UNCHANGED <<unevaluated, raget_testset, error, calls, base_report, flare_report,
                   saved>>

\* evaluate calls answer_fn(sample.question, history=
\* sample.conversation_history) for the next sample of the test set:
\* answer_fn returns str(query_engine.query(question))
AnswerQuestion ==
    /\ pc \in {"base_answering", "flare_answering"}
    /\ Len(answers) < Len(raget_testset)
    /\ \E answer \in Answers :
         /\ answers' = Append(answers, answer)
         /\ calls' = Append(calls, Call(AnswerFn, EngineOf(AnswerFn),
                                       raget_testset[Len(answers) + 1].question,
                                       "ok", answer))
    /\ UNCHANGED <<unevaluated, raget_testset, pc, error, base_report, flare_report,
                   saved>>

\* query_engine.query raises inside answer_fn: the exception ends the cell
AnswerRaises ==
    /\ pc \in {"base_answering", "flare_answering"}
    /\ Len(answers) < Len(raget_testset)
    /\ \E e \in ServiceErrors :
         /\ calls' = Append(calls, Call(AnswerFn, EngineOf(AnswerFn),
                                       raget_testset[Len(answers) + 1].question,
                                       "error", e))
         /\ error' = e
    /\ pc' = "error"
    /\ UNCHANGED <<unevaluated, raget_testset, answers, base_report, flare_report, saved>>

\* every question is answered: evaluate computes the metrics and returns
\* the report of the baseline pipeline
BaseReport ==
    /\ pc = "base_answering"
    /\ Len(answers) = Len(raget_testset)
    /\ base_report' = evaluate("base_answer_fn", raget_testset, knowledge_base, answers,
                               base_metrics)
    /\ pc' = "flare_evaluate_cell"
    /\ UNCHANGED <<unevaluated, raget_testset, answers, error, calls, flare_report, saved>>

\* the report of the FLARE pipeline
FlareReport ==
    /\ pc = "flare_answering"
    /\ Len(answers) = Len(raget_testset)
    /\ flare_report' = evaluate("flare_answer_fn", raget_testset, knowledge_base, answers,
                                flare_metrics)
    /\ pc' = "evaluated"
    /\ UNCHANGED <<unevaluated, raget_testset, answers, error, calls, base_report, saved>>

NextEval ==
    \/ GenerateTestset
    \/ SaveTestset
    \/ LoadTestset
    \/ EvaluateBase
    \/ EvaluateFlare
    \/ AnswerQuestion
    \/ AnswerRaises
    \/ BaseReport
    \/ FlareReport

SpecEval == InitEval /\ [][NextEval]_vars

\* ============================================================ properties
\* The text being chunked, and the configuration of the splitter.
CurText == documents[d].text
S == text_splitter.chunk_size
O == text_splitter.chunk_overlap

\* chunks holds split_text(CurText)
Chunked == pc = "for_chunk"

\* split_text(CurText) has just returned
JustChunked == pc = "for_chunk" /\ idx = 0

\* a configuration the chunker's contract admits: S > 0 and 0 <= O < S
ValidConfig == S > 0 /\ 0 <= O /\ O < S

\* The position at which token number n of text starts.
NthStart(text, n) ==
    CHOOSE i \in TokenStarts(text) :
        Cardinality({j \in TokenStarts(text) : j < i}) = n - 1

DropTokens(text, n) ==
    IF token_size(text) <= n THEN <<>>
    ELSE SubSeq(text, NthStart(text, n + 1), Len(text))

FirstTokens(text, n) ==
    IF token_size(text) <= n THEN text
    ELSE SubSeq(text, 1, NthStart(text, n + 1) - 1)

LastTokens(text, n) ==
    IF n = 0 THEN <<>>
    ELSE IF token_size(text) <= n THEN text
    ELSE SubSeq(text, NthStart(text, token_size(text) - n + 1), Len(text))

\* The first chunk followed by every later chunk without its leading
\* n tokens.
RECURSIVE Reassemble(_, _, _)
Reassemble(cs, k, n) ==
    IF k > Len(cs) THEN <<>>
    ELSE (IF k = 1 THEN cs[k] ELSE DropTokens(cs[k], n)) \o Reassemble(cs, k + 1, n)

\* C1: chunking a text and concatenating the first chunk with every later
\* chunk minus its leading O units gives the text back exactly.
C1_RoundTrip ==
    (JustChunked /\ ValidConfig) => Reassemble(chunks, 1, O) = CurText

\* C2: every chunk has at most S tokens.
C2_SizeBound ==
    (JustChunked /\ ValidConfig) => \A k \in 1..Len(chunks) : token_size(chunks[k]) <= S

\* C3: the last O tokens of every chunk are the first O tokens of the next
\* chunk, and every chunk but the final one is S tokens long.
C3_ExactOverlap ==
    (JustChunked /\ ValidConfig) =>
        \A k \in 1..(Len(chunks) - 1) :
            /\ token_size(chunks[k]) = S
            /\ token_size(chunks[k + 1]) >= O
            /\ strip(LastTokens(chunks[k], O)) = strip(FirstTokens(chunks[k + 1], O))

\* the configurations the contract calls invalid
InvalidArgs == args.chunk_overlap >= args.chunk_size \/ args.chunk_size <= 0

\* C4: once the splitter has been constructed with overlap >= size or
\* size <= 0, the cell has ended in a configuration error and no chunk, no
\* embedding call and no record exists.
C4_RejectedUpFront ==
    (pc # "construct" /\ InvalidArgs) =>
        /\ pc = "error"
        /\ error \in {"ValueError", "ValidationError"}
        /\ chunks = <<>>
        /\ embed_calls = <<>>
        /\ document_data = <<>>

\* a splitter constructed with overlap = size has produced records
C4_Accepted ==
    /\ InvalidArgs /\ pc = "for_chunk" /\ error = "none"
    /\ document_data # <<>> /\ embed_calls # <<>>

\* C5: the empty text yields no chunk, so no embedding is requested and no
\* record is appended for its document.
C5_EmptyYieldsNothing ==
    (Chunked /\ ValidConfig /\ CurText = <<>>) =>
        /\ chunks = <<>>
        /\ \A k \in 1..Len(document_data) : document_data[k].id[1] # documents[d].id_

\* the empty text has been chunked into one empty chunk, for which the
\* embedding has been requested
C5_EmptyChunk ==
    /\ pc \in {"for_chunk", "error"} /\ d > 0
    /\ ValidConfig /\ CurText = <<>> /\ chunks = << <<>> >>
    /\ embed_calls # <<>> /\ embed_calls[Len(embed_calls)] = <<>>

\* C6: a non-empty text of fewer than S tokens yields exactly one chunk,
\* equal to the text.
C6_ShortTextUnchanged ==
    (JustChunked /\ ValidConfig /\ CurText # <<>> /\ token_size(CurText) < S) =>
        chunks = << CurText >>

\* a short text with whitespace around it has been chunked, and its only
\* chunk is the text without that whitespace
C6_Stripped ==
    /\ Chunked /\ ValidConfig /\ token_size(CurText) < S
    /\ CurText = <<" ", "a", "\n">>
    /\ chunks = << <<"a">> >>

\* C7: "A B C D E F G H" with S = 4 and O = 1 gives "A B C D", "D E F G",
\* "G H", in that order.
C7_WorkedExample ==
    (JustChunked /\ CurText = ExampleText /\ S = 4 /\ O = 1) =>
        chunks = << <<"A", " ", "B", " ", "C", " ", "D">>,
                    <<"D", " ", "E", " ", "F", " ", "G">>,
                    <<"G", " ", "H">> >>

\* the example has been chunked
C7_Witness == Chunked /\ CurText = ExampleText /\ S = 4 /\ O = 1 /\ Len(chunks) = 3

\* The positions of the document text a chunk is made of, in order.
RECURSIVE Positions(_, _)
Positions(chunk, k) ==
    IF k > Len(chunk) THEN <<>>
    ELSE [i \in 1..(chunk[k].hi - chunk[k].lo + 1) |-> chunk[k].lo + i - 1]
         \o Positions(chunk, k + 1)

\* The offset in the document of the first character of a chunk that
\* strip() leaves in it.
ChunkStart(text, chunk) ==
    LET ps == Positions(chunk, 1)
        first == CHOOSE i \in 1..Len(ps) :
                    /\ text[ps[i]] \notin Whitespace
                    /\ \A j \in 1..(i - 1) : text[ps[j]] \in Whitespace
    IN  ps[first]

\* The chunks that survive post-processing, as sequences of splits.
KeptRaw(text, chunk_size, chunk_overlap) ==
    SelectSeq(RawChunks(text, chunk_size, chunk_overlap), LAMBDA c : Kept(text, c))

\* C8: the chunks of a document are emitted from left to right (no chunk
\* starts before its predecessor), the records of its chunks carry the
\* indices 0, 1, 2, ... in that order, and the four lists and the collection
\* hold the records in the order of document_data.
C8_OrderPreserved ==
    /\ (JustChunked /\ CurText # <<>>) =>
          LET raw == KeptRaw(CurText, S, O)
          IN  /\ Len(chunks) = Len(raw)
              /\ \A k \in 1..Len(raw) : chunks[k] = strip(ChunkText(CurText, raw[k]))
              /\ \A k \in 1..(Len(raw) - 1) :
                     ChunkStart(CurText, raw[k]) <= ChunkStart(CurText, raw[k + 1])
    /\ Chunked =>
          /\ idx <= Len(document_data)
          /\ \A k \in 1..idx :
                LET rec == document_data[Len(document_data) - idx + k]
                IN  rec.id = <<documents[d].id_, k - 1>> /\ rec.text = chunks[k]
    /\ pc \in {"extracted", "created", "added"} =>
          /\ Len(documents) = Len(document_data)
          /\ Len(embeddings) = Len(document_data)
          /\ Len(metadatas) = Len(document_data)
          /\ Len(ids) = Len(document_data)
          /\ \A k \in 1..Len(document_data) :
                /\ documents[k] = document_data[k].text
                /\ embeddings[k] = document_data[k].embedding
                /\ metadatas[k] = document_data[k].metadata
                /\ ids[k] = document_data[k].id
    /\ pc = "added" =>
          /\ Len(collection) = Len(document_data)
          /\ \A k \in 1..Len(document_data) :
                /\ collection[k].id = document_data[k].id
                /\ collection[k].document = document_data[k].text
                /\ collection[k].embedding = document_data[k].embedding
                /\ collection[k].metadata = document_data[k].metadata

\* the records of a document of several chunks have reached the collection
C8_Witness ==
    /\ pc = "added"
    /\ Len(collection) >= 3
    /\ collection[1].id = <<"d1", 0>>
    /\ collection[2].id = <<"d1", 1>>
    /\ collection[2].document # collection[1].document
    /\ collection[2].embedding # collection[1].embedding

\* C10: the call returns with every chunk starting strictly to the right of
\* the previous one, at least S - O tokens further.
C10_WindowAdvances ==
    (mpc = "returned" /\ ValidConfig /\ CurText # <<>>) =>
        LET raw == KeptRaw(CurText, S, O)
        IN  \A k \in 1..(Len(raw) - 1) :
                LET a == ChunkStart(CurText, raw[k])
                    b == ChunkStart(CurText, raw[k + 1])
                IN  a < b /\ token_size(SubSeq(CurText, a, b - 1)) >= S - O

\* For every text and every configuration the splitter accepts, the call of
\* split_text returns.
Terminates == <>(mpc = "returned")

\* a call has returned two chunks that start at the same offset
C10_SameStart ==
    /\ mpc = "returned" /\ ValidConfig /\ CurText # <<>> /\ Len(chunks) >= 2
    /\ LET raw == KeptRaw(CurText, S, O)
       IN  \E k \in 1..(Len(raw) - 1) :
               ChunkStart(CurText, raw[k]) = ChunkStart(CurText, raw[k + 1])

\* The offsets in the document of the characters of a chunk that strip()
\* leaves in it.
KeptPositions(text, chunk) ==
    LET ps == Positions(chunk, 1)
        solid == {i \in 1..Len(ps) : text[ps[i]] \notin Whitespace}
    IN  {ps[j] : j \in {i \in 1..Len(ps) :
                           \E a \in solid, b \in solid : a <= i /\ i <= b}}

\* C11: every chunk after the first holds at least one character of the
\* document that its predecessor does not hold, and the last chunk reaches
\* the last character of the text that is not whitespace.
C11_NoDuplication ==
    (JustChunked /\ ValidConfig /\ CurText # <<>>) =>
        LET raw == KeptRaw(CurText, S, O)
            solid == {i \in 1..Len(CurText) : CurText[i] \notin Whitespace}
        IN  /\ \A k \in 2..Len(raw) :
                   KeptPositions(CurText, raw[k]) \ KeptPositions(CurText, raw[k - 1]) # {}
            /\ \A i \in solid :
                   (\A j \in solid : j <= i) => i \in KeptPositions(CurText, raw[Len(raw)])

\* a chunk has been emitted that holds nothing but text of its predecessor
C11_OnlyOverlap ==
    /\ JustChunked /\ ValidConfig /\ CurText # <<>>
    /\ LET raw == KeptRaw(CurText, S, O)
       IN  \E k \in 2..Len(raw) :
               /\ KeptPositions(CurText, raw[k]) \subseteq KeptPositions(CurText, raw[k - 1])
               /\ chunks[k] = chunks[k - 1]

\* chunk is text[lo..hi] for some lo and hi (the empty chunk is a slice of
\* every text)
IsSlice(chunk, text) ==
    \/ chunk = <<>>
    \/ \E lo \in 1..Len(text), hi \in 1..Len(text) : chunk = SubSeq(text, lo, hi)

\* the loop over the loaded documents is running or has ended, and the name
\* documents still holds them
Loaded == pc \in {"for_document", "for_chunk", "indexed"}

\* C12: every record carries the id of exactly one loaded document followed
\* by a sequence index, the metadata of that document, and a contiguous
\* slice of that document's text.
C12_RecordOfOneDocument ==
    Loaded =>
        \A k \in 1..Len(document_data) :
            LET rec == document_data[k]
                owners == {j \in 1..Len(documents) : documents[j].id_ = rec.id[1]}
            IN  /\ Cardinality(owners) = 1
                /\ rec.id[2] \in Nat
                /\ \A j \in owners :
                       /\ rec.metadata = documents[j].metadata
                       /\ IsSlice(rec.text, documents[j].text)

\* a record exists whose text is not a slice of the text of its document
C12_NotASlice ==
    /\ Loaded /\ ValidConfig
    /\ \E k \in 1..Len(document_data), j \in 1..Len(documents) :
         /\ documents[j].id_ = document_data[k].id[1]
         /\ ~IsSlice(document_data[k].text, documents[j].text)

\* sub occurs in text as a contiguous run
Contains(text, sub) ==
    \E i \in 0..(Len(text) - Len(sub)) : SubSeq(text, i + 1, i + Len(sub)) = sub

\* C13: the content of every request sent to the chat service is the
\* formatted prompt, which holds the question and the joined retrieved
\* chunks.
C13_RequestsCarryContext ==
    \A k \in 1..Len(calls) :
        calls[k].service = "chat" =>
            /\ calls[k].input = Format(query, Join(context, 1))
            /\ Contains(calls[k].input, query)
            /\ Contains(calls[k].input, Join(context, 1))

\* chunks have been retrieved and a request has been sent to the chat
\* service with the bare question as its content
C13_BareQuestion ==
    /\ context # <<>> /\ message = Format(query, Join(context, 1))
    /\ \E k \in 1..Len(calls) :
         /\ calls[k].service = "chat" /\ calls[k].input = query
         /\ ~Contains(calls[k].input, Join(context, 1))

Waiting == pc \in WaitStates

Retrieved ==
    pc \in {"prompt", "generate_from_query", "generate_from_query_wait",
            "generate_from_message", "generate_from_message_wait", "answered"}

\* The vector the embedding function returned for the question.
QueryVector ==
    calls[Len(document_data) + 1].response

\* The entry at position a is strictly nearer to q than the one at b under
\* the cosine distance.
Nearer(q, a, b) ==
    Dot(q, collection[a].embedding) * Dot(q, collection[a].embedding)
        * Dot(collection[b].embedding, collection[b].embedding)
    > Dot(q, collection[b].embedding) * Dot(q, collection[b].embedding)
        * Dot(collection[a].embedding, collection[a].embedding)

EmbeddingCalls == {k \in 1..Len(calls) : calls[k].service = "embeddings"}

\* C18: every embedding, of a chunk at indexing time or of the question at
\* retrieval time, in the manual pipeline and in the LlamaIndex pipeline,
\* is made by text-embedding-3-small.
C18_SameEmbeddingModel ==
    /\ \A j \in EmbeddingCalls, k \in EmbeddingCalls : calls[j].model = calls[k].model
    /\ \A k \in EmbeddingCalls : calls[k].model = "text-embedding-3-small"

\* both pipelines have embedded their chunks and the question
C18_Witness ==
    /\ pc = "engine_complete"
    /\ Cardinality({k \in EmbeddingCalls : calls[k].input = query /\ calls[k].status = "ok"}) = 2
    /\ Cardinality(EmbeddingCalls) = Len(document_data) + 3
    /\ collection # <<>> /\ nodes # <<>>

\* ---------------------------------------------------------------- C17
Range(list) == {list[i] : i \in 1..Len(list)}

NoRepeats(list) == \A i \in 1..Len(list), j \in 1..Len(list) : i # j => list[i] # list[j]

\* the nodes sent to the llm with the question
HandedToGeneration == calls[Len(calls)].input

\* C17: with similarity_top_k=10 and a reranker with top_n=3, the nodes
\* handed to generation (response.source_nodes) are at most 3, each of them
\* is one of the at most 10 retrieved nodes, which are nodes of the index,
\* and none appears twice.
C17_RerankedSubset ==
    /\ Len(nodes) <= similarity_top_k
    /\ Range(nodes) \subseteq Range(index)
    /\ Len(source_nodes) <= top_n
    /\ Range(source_nodes) \subseteq Range(nodes)
    /\ NoRepeats(source_nodes)
    /\ pc \in {"synthesize_wait", "displayed"} =>
          /\ calls[Len(calls)].service = "chat"
          /\ HandedToGeneration = source_nodes

\* An index of more than 10 nodes was queried through RankGPTRerank, whose
\* ranking model named a passage twice: 10 nodes were retrieved, and 3 of
\* them, not the first 3, went to generation.
C17_Witness ==
    /\ pc = "displayed"
    /\ reranker = "RankGPTRerank"
    /\ Len(index) > similarity_top_k
    /\ Len(nodes) = similarity_top_k
    /\ calls[2].response.replied
    /\ Len(calls[2].response.content) = 2
    /\ calls[2].response.content[1] = calls[2].response.content[2]
    /\ Len(source_nodes) = top_n
    /\ source_nodes # Take(nodes, top_n)

\* ---------------------------------------------------------------- C19
MetricSet(report) == Range(report.metrics)

\* C19: both pipelines are evaluated with Faithfulness, Context Precision
\* and Context Recall in addition to the default Answer Correctness: once
\* both reports exist, the metrics passed for the baseline pipeline are the
\* ones passed for the FLARE pipeline, and each report holds the four
\* metrics.
C19_SameMetrics ==
    pc = "evaluated" =>
        /\ Range(base_report.passed) = Range(flare_report.passed)
        /\ MetricSet(base_report) =
               {correctness_metric, ragas_faithfulness, ragas_context_precision, ragas_context_recall}
        /\ MetricSet(flare_report) = MetricSet(base_report)

\* Both pipelines have answered the same test set; the report of the
\* baseline pipeline holds Answer Correctness and Faithfulness only, the
\* report of the FLARE pipeline all four metrics.
C19_BaselineLacksMetrics ==
    /\ pc = "evaluated"
    /\ base_report.testset = flare_report.testset
    /\ Len(base_report.model_outputs) = Len(raget_testset)
    /\ MetricSet(base_report) = {correctness_metric, ragas_faithfulness}
    /\ MetricSet(flare_report) =
           {correctness_metric, ragas_faithfulness, ragas_context_precision, ragas_context_recall}

\* ---------------------------------------------------------------- C20
\* the embedding calls that were answered
Answered == SelectSeq(calls, LAMBDA c : c.service = "embeddings" /\ c.status = "ok")

\* C20: each chunk is embedded exactly once and stored with its own
\* embedding: there is one answered embedding call per chunk record, the
\* k-th for the text of the k-th record, whose answer is the embedding of
\* that record; after the indexing cells the lists ids, documents,
\* embeddings and metadatas are as long as document_data, the entries at
\* position k come from record k, embeddings[k] is the answer to the call
\* for documents[k], and the collection stores them together.
C20_OwnEmbedding ==
    /\ Len(Answered) = Len(document_data)
    /\ \A k \in 1..Len(document_data) :
          /\ Answered[k].input = document_data[k].text
          /\ Answered[k].response = document_data[k].embedding
    /\ pc \in {"extracted", "created", "added"} =>
          /\ Len(ids) = Len(document_data)
          /\ Len(documents) = Len(document_data)
          /\ Len(embeddings) = Len(document_data)
          /\ Len(metadatas) = Len(document_data)
          /\ \A k \in 1..Len(document_data) :
                /\ <<ids[k], documents[k], embeddings[k], metadatas[k]>> =
                      <<document_data[k].id, document_data[k].text,
                        document_data[k].embedding, document_data[k].metadata>>
                /\ Answered[k].input = documents[k]
                /\ Answered[k].response = embeddings[k]
    /\ pc = "added" =>
          \A k \in 1..Len(collection) :
              /\ Answered[k].input = collection[k].document
              /\ Answered[k].response = collection[k].embedding

\* Two chunks with different texts, whose embeddings differ, have been
\* embedded, extracted and added to the collection.
C20_Witness ==
    /\ pc = "added"
    /\ Len(document_data) >= 2
    /\ documents[1] # documents[2]
    /\ embeddings[1] # embeddings[2]
    /\ collection[2].embedding = embeddings[2]

\* ---------------------------------------------------------------- C21
\* the texts of the nodes the query engine hands to the llm
NodeContents == [k \in 1..Len(nodes) |-> collection[nodes[k]].document]

\* the vector the embed_model of the index returned for the question
EngineQueryVector == calls[Len(document_data) + 5].response

\* C21: the LlamaIndex implementation is the same pipeline as the manual
\* one: it embeds with the same model and, for the same documents and
\* query, hands the generator the chunks the manual pipeline handed to it,
\* the same number in the same order.
C21_SamePipeline ==
    pc = "engine_complete" =>
        /\ \A k \in EmbeddingCalls : calls[k].model = EmbeddingModel
        /\ Len(nodes) = Len(context)
        /\ NodeContents = context

\* The ingestion pipeline stored the texts and vectors the indexing cell
\* had stored and the question got the same vector both times; the manual
\* pipeline handed 5 chunks to the generator, the query engine hands 2.
C21_FewerChunks ==
    /\ pc = "engine_complete"
    /\ Len(collection) = Len(document_data)
    /\ \A k \in 1..Len(collection) :
          /\ collection[k].document = document_data[k].text
          /\ collection[k].embedding = document_data[k].embedding
    /\ EngineQueryVector = QueryVector
    /\ Len(context) = n_results
    /\ Len(nodes) = default_similarity_top_k
    /\ NodeContents # context

\* ---------------------------------------------------------------- C22
\* The text has no sentence end and no line break: no natural breakpoint
\* lies in any window.
NoBreakpoint(text) ==
    \A i \in 1..Len(text) : text[i] \notin SentenceEnd /\ text[i] # "\n"

\* C22: where no sentence or paragraph boundary lies within the size
\* budget the chunk is cut at exactly the size limit S, so that in a text
\* without any breakpoint every chunk but the final one has S tokens; and
\* with or without breakpoints no chunk exceeds S.
C22_HardCut ==
    (JustChunked /\ ValidConfig) =>
        /\ NoBreakpoint(CurText) =>
              \A k \in 1..(Len(chunks) - 1) : token_size(chunks[k]) = S
        /\ \A k \in 1..Len(chunks) : token_size(chunks[k]) <= S

\* "aa aa" has 4 tokens and no breakpoint; with S = 3 and O = 0 it has been
\* cut after the first word, into "aa" and "aa", and not after 3 tokens.
C22_CutAtWord ==
    /\ JustChunked /\ S = 3 /\ O = 0
    /\ CurText = <<"a", "a", " ", "a", "a">>
    /\ chunks = << <<"a", "a">>, <<"a", "a">> >>
    /\ token_size(chunks[1]) < S

\* ---------------------------------------------------------------- C23
\* the cells that work on the loaded documents: the name documents is
\* bound to them until the list extraction binds it to the chunk texts
DocumentsLoaded == pc \in {"construct", "for_document", "for_chunk"}

\* C23: no step of the indexing cell changes the id, text or metadata of a
\* loaded document, and no step, of the indexing cell, the list extraction
\* or collection.add, changes a chunk record or its embedding once the
\* record exists; the lists and the collection hold the vectors of the
\* records.
C23_Immutable ==
    [][/\ DocumentsLoaded => documents' = documents
       /\ Len(document_data') >= Len(document_data)
       /\ \A k \in 1..Len(document_data) : document_data'[k] = document_data[k]
       /\ pc' \in {"extracted", "created", "added"} =>
             \A k \in 1..Len(document_data) : embeddings'[k] = document_data[k].embedding
       /\ pc' = "added" =>
             \A k \in 1..Len(document_data) : collection'[k].embedding = document_data[k].embedding
      ]_vars

\* The chunks of two documents with different metadata have been embedded
\* and their records extracted and added to the collection.
C23_Witness ==
    /\ pc = "added"
    /\ Len(document_data) >= 2
    /\ document_data[1].metadata # document_data[Len(document_data)].metadata
    /\ document_data[1].id[1] # document_data[Len(document_data)].id[1]
    /\ collection[1].embedding = document_data[1].embedding

\* ---------------------------------------------------------------- C24
\* the entries collection.add makes of the chunk records of this run
RunEntries ==
    [k \in 1..Len(document_data) |->
       [id |-> document_data[k].id, embedding |-> document_data[k].embedding,
        document |-> document_data[k].text, metadata |-> document_data[k].metadata]]

\* the embedding calls of this run: those after the calls of the earlier run
EarlierCalls == Len(calls) - Len(document_data)

\* C24: indexing starts from an empty store: whatever an earlier run left
\* in the 'malazan' collection, after the indexing cells have run again the
\* collection holds exactly the chunk records of this run, each once, and
\* nothing of the earlier run; between reset and add it is empty.
C24_OnlyLastRun ==
    /\ pc = "created" => collection = <<>>
    /\ pc = "added" =>
          /\ collection = RunEntries
          /\ NoRepeats([k \in 1..Len(collection) |-> collection[k].id])

\* The earlier run had left more entries than this run has records, among
\* them one with the id of a record of this run; this run's records are in
\* the collection.
C24_Witness ==
    /\ pc = "added"
    /\ EarlierCalls > Len(document_data)
    /\ calls[1].input # document_data[1].text
    /\ document_data[1].id = <<"d1", 0>>
    /\ Len(collection) = Len(document_data)

\* ---------------------------------------------------------------- C25
\* The characters of a document id.
IdChars(id_) ==
    IF id_ = "d1" THEN <<"d", "1">>
    ELSE IF id_ = "d2" THEN <<"d", "2">>
    ELSE IF id_ = "d1-0" THEN <<"d", "1", "-", "0">>
    ELSE <<id_>>

\* str(n) of a natural number
RECURSIVE Str(_)
Str(n) ==
    LET digit == <<"0", "1", "2", "3", "4", "5", "6", "7", "8", "9">>[(n % 10) + 1]
    IN  IF n < 10 THEN <<digit>> ELSE Str(n \div 10) \o <<digit>>

\* The string f"{document.id_}-{idx}" of a chunk id.
FString(id) == IdChars(id[1]) \o <<"-">> \o Str(id[2])

DistinctDocumentIds ==
    \A i \in 1..Len(documents), j \in 1..Len(documents) :
        i # j => documents[i].id_ # documents[j].id_

\* C25: the documents having pairwise distinct ids, the ids
\* f"{document.id_}-{idx}" of all chunk records are pairwise distinct as
\* strings, and so are the ids handed to collection.add and the ids of the
\* entries it stores.
C25_UniqueIds ==
    /\ (DocumentsLoaded /\ DistinctDocumentIds) =>
          NoRepeats([k \in 1..Len(document_data) |-> FString(document_data[k].id)])
    /\ pc \in {"indexed", "extracted", "created", "added"} =>
          NoRepeats([k \in 1..Len(document_data) |-> FString(document_data[k].id)])
    /\ pc \in {"extracted", "created", "added"} =>
          NoRepeats([k \in 1..Len(ids) |-> FString(ids[k])])
    /\ pc = "added" =>
          NoRepeats([k \in 1..Len(collection) |-> FString(collection[k].id)])

\* The documents "d1" and "d1-0" have been indexed, the first in two
\* chunks: the ids "d1-0", "d1-1" and "d1-0-0" are in the collection.
C25_Witness ==
    /\ pc = "added"
    /\ Len(collection) = 3
    /\ FString(collection[1].id) = <<"d", "1", "-", "0">>
    /\ FString(collection[2].id) = <<"d", "1", "-", "1">>
    /\ FString(collection[3].id) = <<"d", "1", "-", "0", "-", "0">>

\* ---------------------------------------------------------------- C26
\* The contents of the first n events of a stream, one after the other,
\* an event without content adding nothing.
RECURSIVE Contents(_, _)
Contents(events, n) ==
    IF n = 0 THEN <<>>
    ELSE Contents(events, n - 1) \o
         (IF events[n].is_none THEN <<>> ELSE events[n].content)

IsPrefix(a, b) == Len(a) <= Len(b) /\ SubSeq(b, 1, Len(a)) = a

Streaming == pc \in {"stream_of_query", "stream_of_message"}

\* C26: while a completion stream is consumed, after each event output and
\* the displayed text are the contents of the events received so far in
\* their order, an event whose content is None adding the empty string;
\* each displayed text is a prefix of the next; and when the stream is
\* exhausted the output is the whole generated text.
C26_Accumulates ==
    [][/\ Streaming' => output' = Contents(stream', consumed')
       /\ (Streaming /\ consumed' = consumed + 1) =>
             /\ displayed' = Contents(stream, consumed + 1)
             /\ consumed > 0 => IsPrefix(displayed, displayed')
       /\ (Streaming /\ ~Streaming' /\ error' = "none") =>
             /\ output' = Contents(stream, Len(stream))
             /\ calls'[Len(calls')].response = output'
      ]_vars

\* A stream of three events, text, None and text, has been consumed to its
\* end: the output is the two texts.
C26_Witness ==
    /\ pc = "answered"
    /\ Len(stream) = 3
    /\ ~stream[1].is_none /\ stream[1].content # <<>>
    /\ stream[2].is_none
    /\ ~stream[3].is_none /\ stream[3].content # <<>>
    /\ output = stream[1].content \o stream[3].content
    /\ displayed = output

\* ---------------------------------------------------------------- C27
\* the calls custom_query has made, by service
CallsTo(service) == {k \in 2..Len(calls) : calls[k].service = service}

\* the prompt sent to the llm
PromptSent == calls[Len(calls)].input

\* C27: custom_query makes one retriever call and then one llm call; the
\* prompt sent to the llm is the prompt printed and is the engine's own
\* qa_prompt field formatted with the contents of the retrieved nodes,
\* joined by a blank line in retrieval order, and the question; the value
\* returned is the answer of the llm; the response synthesizer is not
\* called.
C27_CustomQuery ==
    pc = "custom_answered" =>
        /\ Cardinality(CallsTo("embeddings")) = 1
        /\ Cardinality(CallsTo("chat")) = 1
        /\ CallsTo("response_synthesizer") = {}
        /\ calls[2].service = "embeddings" /\ calls[3].service = "chat"
        /\ PromptSent = printed
        /\ PromptSent = TemplateFormat(query_engine.qa_prompt, Join(NodeContents, 1), query)
        /\ response = calls[3].response

\* An engine constructed with a template of its own has answered: the
\* prompt printed and sent was made with the template of the notebook.
C27_NotebookTemplate ==
    /\ pc = "custom_answered"
    /\ query_engine.qa_prompt # qa_prompt
    /\ PromptSent = printed
    /\ PromptSent = TemplateFormat(qa_prompt, Join(NodeContents, 1), query)
    /\ PromptSent # TemplateFormat(query_engine.qa_prompt, Join(NodeContents, 1), query)

\* ---------------------------------------------------------------- C28
\* the calls one answer function has made
CallsOf(fn) == SelectSeq(calls, LAMBDA c : c.service = fn)

\* the samples the evaluate call that is running has put to its answer
\* function
Asked ==
    IF pc \in {"base_answering", "flare_answering"} THEN Len(answers)
    ELSE Len(raget_testset)

\* C28: whatever history evaluate passes, base_answer_fn and
\* flare_answer_fn make one query_engine.query call per question, with the
\* question alone, base_answer_fn on the baseline engine and
\* flare_answer_fn on the FLARE engine.
C28_HistoryIgnored ==
    (error = "none" /\ pc \notin {"generate_cell", "save_cell", "load_cell"}) =>
        /\ \A k \in 1..Len(calls) :
              /\ calls[k].service \in {"base_answer_fn", "flare_answer_fn"}
              /\ calls[k].model = (IF calls[k].service = "base_answer_fn"
                                   THEN "base_query_engine" ELSE "flare_query_engine")
        /\ \A fn \in {"base_answer_fn", "flare_answer_fn"} :
              \A k \in 1..Len(CallsOf(fn)) :
                  CallsOf(fn)[k].input = raget_testset[k].question
        /\ pc \in {"base_evaluate_cell", "base_answering"} =>
              /\ Len(CallsOf("base_answer_fn")) = (IF pc = "base_answering" THEN Asked ELSE 0)
              /\ CallsOf("flare_answer_fn") = <<>>
        /\ pc \in {"flare_evaluate_cell", "flare_answering", "evaluated"} =>
              /\ Len(CallsOf("base_answer_fn")) = Len(raget_testset)
              /\ Len(CallsOf("flare_answer_fn")) =
                    (IF pc = "flare_evaluate_cell" THEN 0 ELSE Asked)

\* Both pipelines have answered a question asked without history and a
\* question asked with a history of one message.
C28_Witness ==
    /\ pc = "evaluated"
    /\ Len(raget_testset) >= 2
    /\ raget_testset[1].conversation_history = <<>>
    /\ raget_testset[2].conversation_history # <<>>
    /\ CallsOf("flare_answer_fn")[2].input = raget_testset[2].question
    /\ CallsOf("flare_answer_fn")[2].model = "flare_query_engine"

RetrievalCall == calls[Len(document_data) + 1]

\* C29: the question in the generation prompt is the question the context
\* of that prompt was retrieved for, and both are the value the last
\* executed query cell assigned.
C29_QueryContextConsistent ==
    (Retrieved /\ message # <<>>) =>
        /\ RetrievalCall.service = "embeddings"
        /\ RetrievalCall.status = "ok"
        /\ context = [k \in 1..Len(result) |-> collection[result[k]].document]
        /\ result \in Query(collection, RetrievalCall.response, n_results)
        /\ \E q \in Queries : message = Format(q, Join(context, 1))
        /\ \A q \in Queries :
              message = Format(q, Join(context, 1)) =>
                  /\ q = RetrievalCall.input
                  /\ q = query

\* The prompt is formatted for the question of the third cell with the two
\* or more chunks retrieved for it.
C29_Witness ==
    /\ pc = "generate_from_query"
    /\ query = <<"What is Kurald Galain?">>
    /\ Len(context) >= 2
    /\ message = Format(query, Join(context, 1))
    /\ RetrievalCall.input = <<"What is Kurald Galain?">>
====
